---- MODULE Spec2Model ----
(***************************************************************************)
(* A model of the tool-calling core of cursor-agent: the permission policy *)
(* of src/agent/permissions.py, the tool registry of src/agent/base.py and *)
(* the chat round of the Claude, OpenAI and Ollama agents.                 *)
(***************************************************************************)
EXTENDS Integers, Sequences, FiniteSets, TLC

VARIABLES
    \* ---- PermissionManager (src/agent/permissions.py)
    options,            \* self.options: PermissionOptions
    callback,           \* self.callback: "none" or "set"
    perm_request,       \* the PermissionRequest of the last request_permission
    perm_status,        \* what _evaluate_permission returned for it
    perm_result,        \* what request_permission returned: TRUE / FALSE
    callback_calls,     \* the requests handed to self.callback, in order
    prompt_calls,       \* how often the built-in prompt was shown
    perm_channel,       \* who decided the last request: "none", "callback", "prompt"
    perm_count,         \* number of request_permission calls so far
    \* ---- the agent (src/agent/base.py and the three agents)
    variant,            \* which agent class: "claude", "openai", "ollama"
    available_tools,    \* self.available_tools: name -> record
    reg_log,            \* the register_tool calls made so far, in order
    conversation_history, \* self.conversation_history: the turns
    pc,                 \* where chat() stands
    tool_calls,         \* the tool calls of the current round
    tool_results,       \* the results _execute_tool_calls has built so far
    idx,                \* how many tool calls _execute_tool_calls has handled
    invocations,        \* start/end events of the tool callables, this round
    chat_return,        \* what the last chat() returned
    last_exc,           \* the backend failure of the last round, if any
    hist_before,        \* len(conversation_history) when the round began
    rounds,             \* number of chat() calls so far
    cur_message,        \* the formatted message of the current round
    resp_text,          \* the text of the first backend response
    backend_calls,      \* start/end events of the backend calls, this round
    \* ---- run_agent_interactive (src/agent/interact.py)
    d_pc,               \* where run_agent_interactive stands
    iteration,          \* iteration
    max_iterations,     \* max_iterations
    auto_continue,      \* auto_continue
    query,              \* query
    response,           \* response of the last main round
    pending_calls,      \* the extracted tool calls the for loop has yet to track
    user_prompt,        \* what check_for_user_input_request returned
    user_input,         \* the text the user entered for the next prompt
    cur_exc,            \* str(e) of the exception being handled
    recent_errors,      \* user_info["recent_errors"]
    d_outcome,          \* how the loop ended
    d_return,           \* what run_agent_interactive returned
    main_rounds,        \* the main rounds started: iteration and query of each
    input_log,          \* the input() calls made: prompt kind and entered text
    aux_log,            \* the prompts of the auxiliary agent.chat calls
    current_iteration_tool_calls, \* current_iteration_tool_calls
    max_tool_calls_per_iteration, \* max_tool_calls_per_iteration
    ui_tool_calls,      \* user_info["tool_calls"]
    ui_command_history, \* user_info["command_history"]
    created_or_modified_files,    \* created_or_modified_files
    retries,            \* how often the user chose to retry
    \* ---- the default tools (src/agent/tools)
    agent_ref,          \* the agent argument the tools are called with
    fs,                 \* the files: path -> content, or Absent
    processes,          \* the command lines handed to subprocess.Popen
    tool_log            \* the tool runs so far: what was asked and done

perm_vars == <<options, callback, perm_request, perm_status, perm_result,
               callback_calls, prompt_calls, perm_channel, perm_count>>

agent_vars == <<variant, available_tools, reg_log, conversation_history, pc,
                tool_calls, tool_results, idx, invocations, chat_return,
                last_exc, hist_before, rounds, cur_message,
                resp_text, backend_calls>>

driver_vars == <<d_pc, iteration, max_iterations, auto_continue, query,
                 response, pending_calls, user_prompt, user_input, cur_exc,
                 recent_errors, d_outcome, d_return, main_rounds, input_log, aux_log,
                 current_iteration_tool_calls, max_tool_calls_per_iteration,
                 ui_tool_calls, ui_command_history, created_or_modified_files,
                 retries>>

tool_vars == <<agent_ref, fs, processes, tool_log>>

vars == <<options, callback, perm_request, perm_status, perm_result,
          callback_calls, prompt_calls, perm_channel, perm_count,
          variant, available_tools, reg_log, conversation_history, pc,
          tool_calls, tool_results, idx, invocations, chat_return,
          last_exc, hist_before, rounds, cur_message,
          resp_text, backend_calls,
          d_pc, iteration, max_iterations, auto_continue, query,
          response, pending_calls, user_prompt, user_input, cur_exc,
          recent_errors, d_outcome, d_return, main_rounds, input_log, aux_log,
          current_iteration_tool_calls, max_tool_calls_per_iteration,
          ui_tool_calls, ui_command_history, created_or_modified_files,
          retries, agent_ref, fs, processes, tool_log>>

----------------------------------------------------------------------------
(* Bounds *)

MaxListLen == 2
MaxRequests == 1
MaxRegistrations == 3
MaxCalls == 2
MaxRounds == 1

----------------------------------------------------------------------------
(* Strings *)

\* Python's `sub in s` on str: sub occurs in s as a contiguous substring.
StrContains(sub, s) ==
    \E t \in {s} :
        \E i \in 1..(Len(t) - Len(sub) + 1) : SubSeq(t, i, i + Len(sub) - 1) = sub

\* Python's s.startswith(prefix)
StartsWith(prefix, s) ==
    Len(s) >= Len(prefix) /\ SubSeq(s, 1, Len(prefix)) = prefix

\* Python's any(x in command for x in lst)
AnyIn(lst, command) ==
    \E c \in {command} : \E k \in 1..Len(lst) : StrContains(lst[k], c)

\* the ASCII capitals and their lower-case letters
Capitals == "ABCDEFGHIJKLMNOPQRSTUVWXYZ"
Smalls == "abcdefghijklmnopqrstuvwxyz"

\* str.lower() of one character
LowerChar(c) ==
    IF \E k \in 1..Len(Capitals) : SubSeq(Capitals, k, k) = c
    THEN LET k == CHOOSE k \in 1..Len(Capitals) : SubSeq(Capitals, k, k) = c
         IN  SubSeq(Smalls, k, k)
    ELSE c

\* Python's str.lower(), by halves
RECURSIVE lower(_)
lower(s) ==
    CHOOSE r \in { IF Len(t) = 0 THEN ""
                   ELSE IF Len(t) = 1 THEN LowerChar(t)
                   ELSE lower(SubSeq(t, 1, Len(t) \div 2))
                        \o lower(SubSeq(t, (Len(t) \div 2) + 1, Len(t)))
                   : t \in {s} } : TRUE

\* Python's s.index(sub), counted from 1; sub occurs in s
StrIndex(s, sub) ==
    CHOOSE i \in 1..(Len(s) - Len(sub) + 1) :
        \E t \in {s} :
            /\ SubSeq(t, i, i + Len(sub) - 1) = sub
            /\ \A j \in 1..(i - 1) : SubSeq(t, j, j + Len(sub) - 1) # sub

\* Python's s[a:b] with 0 <= a <= b, as positions counted from 1: the
\* characters a+1 .. b, cut at the end of s
Slice(s, a, b) == SubSeq(s, a + 1, IF b < Len(s) THEN b ELSE Len(s))

\* Python's s.split("\n"): the text up to the first line break, then the
\* split of what follows it
RECURSIVE SplitLines(_)
SplitLines(s) ==
    CHOOSE r \in { IF StrContains("\n", t)
                   THEN <<SubSeq(t, 1, StrIndex(t, "\n") - 1)>>
                        \o SplitLines(SubSeq(t, StrIndex(t, "\n") + 1, Len(t)))
                   ELSE <<t>>
                   : t \in {s} } : TRUE

\* Python's s.strip(chars): drop leading and trailing characters of chars
RECURSIVE StripChars(_, _)
StripChars(s, chars) ==
    CHOOSE r \in { IF Len(t) > 0 /\ StrContains(SubSeq(t, 1, 1), chars)
                   THEN StripChars(SubSeq(t, 2, Len(t)), chars)
                   ELSE IF Len(t) > 0 /\ StrContains(SubSeq(t, Len(t), Len(t)), chars)
                   THEN StripChars(SubSeq(t, 1, Len(t) - 1), chars)
                   ELSE t
                   : t \in {s} } : TRUE

\* line.strip().strip("\"'")
StripQuoted(s) == StripChars(StripChars(s, " \t\n\r"), "\"'")

----------------------------------------------------------------------------
(* Values exchanged with tools and backends *)

ToolNames == {"read_file", "edit_file"}
Functions == {"f1", "f2"}
Descriptions == {"d1", "d2"}
ParamSpecs == {"p1"}

\* json.dumps of a text without characters that need escaping
JsonStr(s) == "\"" \o s \o "\""

\* A Python value a tool returns: a str, or a dict with one text entry.
PyStr(s) == [type |-> "str", str |-> s, key |-> "", val |-> ""]
PyDict(k, v) == [type |-> "dict", str |-> "", key |-> k, val |-> v]
ToolValues == {PyStr("contents"), PyDict("output", "ok")}
ExcTexts == {"boom"}

\* json.dumps(value)
json_dumps(value) ==
    IF value.type = "str"
    THEN JsonStr(value.str)
    ELSE "{" \o JsonStr(value.key) \o ": " \o JsonStr(value.val) \o "}"

\* value.get(key, default) on a tool's return value; a str has no .get
HasGet(value) == value.type = "dict"
DictGet(value, k, default) ==
    IF value.key = k THEN value.val ELSE default

\* Argument payloads of a tool call as a backend encodes them, and json.loads
\* on them: mappings are sets of <<key, value>> pairs.
GoodPayload == "{\"target_file\": \"a.txt\"}"
BadPayload == "{target_file"
Payloads == {GoodPayload, BadPayload}
EmptyArgs == {}

\* a decoder that hands back the undecoded text as the argument
json_loads_keep_text(payload) ==
    IF payload = GoodPayload
    THEN [ok |-> TRUE, value |-> {<<"target_file", "a.txt">>}]
    ELSE [ok |-> FALSE, value |-> {<<"target_file", payload>>}]

\* json.loads(payload) inside the adapters' try: ok tells whether it decoded,
\* value is what the adapter goes on with
json_loads(payload) ==
    IF payload = GoodPayload
    THEN [ok |-> TRUE, value |-> {<<"target_file", "a.txt">>}]
    ELSE [ok |-> FALSE, value |-> EmptyArgs]

NoId == <<0, 0>>

\* a turn of conversation_history; only the fields a given turn has are set
Turn(role, content, calls, results) ==
    [role |-> role, content |-> content, tool_calls |-> calls,
     tool_results |-> results]

UserTurn(text) == Turn("user", text, <<>>, <<>>)
AssistantTurn(text) == Turn("assistant", text, <<>>, <<>>)

\* BaseAgent.format_user_message(message, None)
format_user_message(message) == "<user_query>\n" \o message \o "\n</user_query>"

Messages == {"hello"}
Texts == {"", "answer"}

----------------------------------------------------------------------------
(* Tool registry: BaseAgent.register_tool *)

EmptyRegistry == [n \in {} |-> 0]

ToolRecord(name, function, description, parameters) ==
    [function |-> function,
     schema |-> [name |-> name, description |-> description,
                 parameters |-> parameters]]

\* a registration that keeps an existing record (dict.setdefault)
register_tool_keep_first(tools, name, function, description, parameters) ==
    [n \in DOMAIN tools \cup {name} |->
        IF n \in DOMAIN tools THEN tools[n]
        ELSE ToolRecord(name, function, description, parameters)]

\* self.available_tools[name] = {...}
register_tool(tools, name, function, description, parameters) ==
    [n \in DOMAIN tools \cup {name} |->
        IF n = name THEN ToolRecord(name, function, description, parameters)
        ELSE tools[n]]

----------------------------------------------------------------------------
(* Backend failures and the except clauses of chat() *)

\* The exception classes chat() distinguishes; "Exception" stands for every
\* exception that is none of the API classes.
ExcKinds == {"AuthenticationError", "BadRequestError", "RateLimitError",
             "APIError", "Exception"}

ExcKindsOf(v) == IF v = "ollama" THEN {"Exception"} ELSE ExcKinds

\* isinstance(exc, cls) along the SDK's class hierarchy
IsInstance(exc, cls) ==
    \/ cls = exc
    \/ cls = "APIError"
         /\ exc \in {"AuthenticationError", "BadRequestError", "RateLimitError"}
    \/ cls = "Exception"

Handler(cls, category, text) == [cls |-> cls, category |-> category, text |-> text]

\* the clauses with `except APIError` written first
ExceptClauses_api_first(v) ==
    IF v = "ollama"
    THEN <<Handler("Exception", "ollama", "Error communicating with Ollama: ")>>
    ELSE <<Handler("APIError", "api", "Error: API error. Details: "),
           Handler("AuthenticationError", "auth", "Error: Authentication failed. "),
           Handler("BadRequestError", "bad_request", "Error: Bad request to the API. "),
           Handler("RateLimitError", "rate_limit", "Error: Rate limit exceeded. "),
           Handler("Exception", "unexpected", "Error: An unexpected error occurred. ")>>

\* the except clauses of chat(), in source order
ExceptClauses(v) ==
    IF v = "ollama"
    THEN <<Handler("Exception", "ollama", "Error communicating with Ollama: ")>>
    ELSE <<Handler("AuthenticationError", "auth", "Error: Authentication failed. "),
           Handler("BadRequestError", "bad_request", "Error: Bad request to the API. "),
           Handler("RateLimitError", "rate_limit", "Error: Rate limit exceeded. "),
           Handler("APIError", "api", "Error: API error. Details: "),
           Handler("Exception", "unexpected", "Error: An unexpected error occurred. ")>>

NoReturn == [kind |-> "none", category |-> "", text |-> "", tool_calls |-> <<>>]
Pending == [kind |-> "pending", category |-> "", text |-> "", tool_calls |-> <<>>]
ReturnText(text) == [kind |-> "text", category |-> "", text |-> text, tool_calls |-> <<>>]
ReturnError(category, text) ==
    [kind |-> "error", category |-> category, text |-> text, tool_calls |-> <<>>]
ReturnResponse(message, calls) ==
    [kind |-> "response", category |-> "", text |-> message, tool_calls |-> calls]
Raised(exc) == [kind |-> "raised", category |-> exc, text |-> "", tool_calls |-> <<>>]

\* try ... except: the first clause whose class the exception is an instance
\* of returns its message; with no such clause the exception leaves chat().
chat_except(v, exc) ==
    LET clauses == ExceptClauses(v)
        hits == {k \in 1..Len(clauses) : IsInstance(exc, clauses[k].cls)}
    IN  IF hits = {}
        THEN Raised(exc)
        ELSE LET first == CHOOSE k \in hits : \A j \in hits : k <= j
             IN  ReturnError(clauses[first].category, clauses[first].text \o exc)

NoExc == [at |-> 0, kind |-> ""]

----------------------------------------------------------------------------
(* _execute_tool_calls: the result built for one tool call *)

PyNone == "<None>"

\* -- ClaudeAgent: {"type": "tool_result", "tool_use_id", "is_error", "content"}
ClaudeResult(tool_id, is_error, content) ==
    [tool_use_id |-> tool_id, is_error |-> is_error, content |-> content]

\* -- OpenAIAgent: {"role": "tool", "tool_call_id", "name", "content"}
OpenAIResult(tool_call_id, name, content) ==
    [role |-> "tool", tool_call_id |-> tool_call_id, name |-> name,
     content |-> content]

\* -- OllamaAgent: {"name", "parameters", "output", "error"}
OllamaResult(name, parameters, output, error) ==
    [name |-> name, parameters |-> parameters, output |-> output, error |-> error]

\* the arguments the callable is invoked with
CallArguments(v, call) ==
    IF v = "openai" THEN json_loads(call.arguments).value ELSE call.arguments

\* a not-found branch that reports an ordinary result
NotFoundResult_unflagged(v, call) ==
    IF v = "claude"
    THEN ClaudeResult(call.id, FALSE,
                      "Tool '" \o call.name \o "' not found. Error: Tool not available.")
    ELSE IF v = "openai"
    THEN OpenAIResult(call.id, call.name, "Tool " \o call.name \o " not found")
    ELSE OllamaResult(call.name, call.arguments, "Tool '" \o call.name \o "' not found",
                      PyNone)

\* tool_name not in self.available_tools
NotFoundResult(v, call) ==
    IF v = "claude"
    THEN ClaudeResult(call.id, TRUE,
                      "Tool '" \o call.name \o "' not found. Error: Tool not available.")
    ELSE IF v = "openai"
    THEN OpenAIResult(call.id, call.name,
                      "{\"error\": " \o JsonStr("Tool " \o call.name \o " not found") \o "}")
    ELSE OllamaResult(call.name, call.arguments, "",
                      "Tool '" \o call.name \o "' not found")

\* an except branch that drops the exception text
RaisedResult_no_text(v, call, e) ==
    IF v = "claude"
    THEN ClaudeResult(call.id, TRUE, "Error executing tool " \o call.name)
    ELSE IF v = "openai"
    THEN OpenAIResult(call.id, call.name, "{\"error\": " \o JsonStr("failed") \o "}")
    ELSE OllamaResult(call.name, call.arguments, "", "Error executing tool")

\* except Exception as e, around the call of the tool
RaisedResult(v, call, e) ==
    IF v = "claude"
    THEN ClaudeResult(call.id, TRUE,
                      "Error executing tool " \o call.name \o ": " \o e)
    ELSE IF v = "openai"
    THEN OpenAIResult(call.id, call.name, "{\"error\": " \o JsonStr(e) \o "}")
    ELSE OllamaResult(call.name, call.arguments, "", "Error executing tool: " \o e)

AttributeErrorText == "'str' object has no attribute 'get'"

\* results that all carry the id of the round's first tool call
ReturnedResult_first_id(v, call, value) ==
    LET content == IF value.type = "str" THEN value.str ELSE json_dumps(value)
    IN  IF v = "claude" THEN ClaudeResult(<<call.id[1], 1>>, FALSE, content)
        ELSE IF v = "openai" THEN OpenAIResult(<<call.id[1], 1>>, call.name, content)
        ELSE IF HasGet(value)
        THEN OllamaResult(call.name, call.arguments,
                          DictGet(value, "output", ""), DictGet(value, "error", PyNone))
        ELSE RaisedResult(v, call, AttributeErrorText)

\* the tool returned `value`
ReturnedResult(v, call, value) ==
    LET content == IF value.type = "str" THEN value.str ELSE json_dumps(value)
    IN  IF v = "claude" THEN ClaudeResult(call.id, FALSE, content)
        ELSE IF v = "openai" THEN OpenAIResult(call.id, call.name, content)
        ELSE IF HasGet(value)
        THEN OllamaResult(call.name, call.arguments,
                          DictGet(value, "output", ""), DictGet(value, "error", PyNone))
        ELSE RaisedResult(v, call, AttributeErrorText)

\* the turn _execute_tool_calls itself appends (OllamaAgent only)
OllamaToolTurn(call, value) ==
    Turn("tool", DictGet(value, "output", ""), <<>>, <<[name |-> call.name]>>)

\* the turn chat() appends for one result (ClaudeAgent, OpenAIAgent)
ResultTurn(v, result) ==
    IF v = "claude" THEN Turn("user", "", <<>>, <<result>>)
    ELSE Turn("tool", result.content, <<>>, <<result>>)

\* all results of a round folded into a single turn
ResultTurns_aggregate(v, results) ==
    IF results = <<>> THEN <<>>
    ELSE <<Turn(IF v = "claude" THEN "user" ELSE "tool", "", <<>>, results)>>

\* for result in tool_results: self.conversation_history.append(result)
ResultTurns(v, results) ==
    [i \in 1..Len(results) |-> ResultTurn(v, results[i])]

----------------------------------------------------------------------------
(* chat(): one round, cut at the backend calls and at the tool callables *)

\* what a backend's first response can hold: a text and up to MaxCalls tool
\* calls; the backend numbers the calls of a round
ToolCallLists(round) ==
    UNION {{[i \in 1..k |-> [id |-> <<round, i>>, name |-> names[i],
                             arguments |-> payloads[i]]] :
               names \in [1..k -> ToolNames], payloads \in [1..k -> Payloads]} :
           k \in 0..MaxCalls}

\* OllamaAgent.chat's replacement of short replies to two fixed questions
enhance_content(content, message) ==
    IF Len(content) < 30
    THEN IF StrContains("What files do I have open?", message)
         THEN "Based on the user information provided, you have no files currently open."
         ELSE IF StrContains("What is the capital of France?", message)
         THEN "The capital of France is Paris."
         ELSE content
    ELSE content

\* the {id, name} descriptors an assistant turn records
CallHeads(calls) == [i \in 1..Len(calls) |-> [id |-> calls[i].id, name |-> calls[i].name]]

\* ClaudeAgent: block.input arrives decoded; OllamaAgent.chat decodes a string
\* payload itself and falls back to {}; OpenAIAgent keeps the raw call.  The
\* decoded calls remember the payload they came from.
ExtractCalls(v, calls) ==
    IF v = "openai" THEN calls
    ELSE [i \in 1..Len(calls) |->
            [id |-> IF v = "claude" THEN calls[i].id ELSE NoId,
             name |-> calls[i].name,
             arguments |-> json_loads(calls[i].arguments).value,
             payload |-> calls[i].arguments]]

\* the argument payload the backend sent for a call
CallPayload(v, call) == IF v = "openai" THEN call.arguments ELSE call.payload

\* whether a backend call of a round offers the registered tools: the first
\* call passes them, the follow-up call passes none
ToolsOffered_both(tools, n) == DOMAIN tools # {}

ToolsOffered(tools, n) == n = 1 /\ DOMAIN tools # {}

\* the messages the first backend call is sent: ClaudeAgent and OpenAIAgent
\* have already appended the user turn, OllamaAgent._prepare_messages adds it
\* to a copy
FirstMessages(v, history, message) ==
    IF v = "ollama" THEN Append(history, UserTurn(message)) ELSE history

\* a backend call is issued / has come back
BackendStart(n, messages, finished) ==
    [ev |-> "start", call |-> n, tools |-> ToolsOffered(available_tools, n),
     messages |-> messages, finished |-> finished]

BackendEnd(n) ==
    [ev |-> "end", call |-> n, tools |-> FALSE, messages |-> <<>>, finished |-> idx]

\* chat(message) is called on an idle agent that has served fewer than max
\* rounds
ChatStartWithin(max) ==
    /\ pc = "idle"
    /\ rounds < max
    /\ \E message \in Messages :
        /\ cur_message' = format_user_message(message)
        /\ conversation_history' =
             IF variant = "ollama" THEN conversation_history
             ELSE Append(conversation_history, UserTurn(format_user_message(message)))
        /\ backend_calls' =
             <<BackendStart(1, FirstMessages(variant, conversation_history',
                                             format_user_message(message)), 0)>>
    /\ rounds' = rounds + 1
    /\ hist_before' = Len(conversation_history)
    /\ tool_calls' = <<>>
    /\ tool_results' = <<>>
    /\ idx' = 0
    /\ invocations' = <<>>
    /\ resp_text' = ""
    /\ chat_return' = Pending
    /\ last_exc' = NoExc
    /\ pc' = "call1"
    /\ UNCHANGED <<variant, available_tools, reg_log>>
    /\ UNCHANGED perm_vars
    /\ UNCHANGED driver_vars
    /\ UNCHANGED tool_vars

ChatStart == ChatStartWithin(MaxRounds)

\* the first backend call raises
FirstCallFails ==
    /\ pc = "call1"
    /\ \E exc \in ExcKindsOf(variant) :
        /\ chat_return' = chat_except(variant, exc)
        /\ last_exc' = [at |-> 1, kind |-> exc]
    /\ pc' = "idle"
    /\ UNCHANGED <<variant, available_tools, reg_log, conversation_history,
                   tool_calls, tool_results, idx, invocations, hist_before,
                   rounds, cur_message, resp_text>>
    /\ backend_calls' = Append(backend_calls, BackendEnd(1))
    /\ UNCHANGED perm_vars
    /\ UNCHANGED driver_vars
    /\ UNCHANGED tool_vars

\* the first backend call returns: a text, or tool calls without text
FirstCallReturns ==
    /\ pc = "call1"
    /\ \E text \in Texts, calls \in ToolCallLists(rounds) :
        /\ calls # <<>> => text = ""
        /\ variant = "claude" =>
              \A i \in 1..Len(calls) : calls[i].arguments = GoodPayload
        /\ resp_text' = text
        /\ tool_calls' = ExtractCalls(variant, calls)
        /\ IF variant = "ollama"
           THEN /\ conversation_history' =
                     conversation_history \o <<UserTurn(cur_message), AssistantTurn(text)>>
                /\ IF calls # <<>>
                   THEN pc' = "tools" /\ UNCHANGED chat_return
                   ELSE /\ pc' = "idle"
                        /\ chat_return' = ReturnText(enhance_content(text, cur_message))
           ELSE IF calls # <<>>
           THEN /\ conversation_history' =
                     Append(conversation_history,
                            Turn("assistant", text, CallHeads(calls), <<>>))
                /\ pc' = "tools"
                /\ UNCHANGED chat_return
           ELSE /\ conversation_history' =
                     Append(conversation_history, AssistantTurn(text))
                /\ pc' = "idle"
                /\ chat_return' = ReturnText(text)
    /\ UNCHANGED <<variant, available_tools, reg_log, tool_results, idx,
                   invocations, last_exc, hist_before, rounds, cur_message>>
    /\ backend_calls' = Append(backend_calls, BackendEnd(1))
    /\ UNCHANGED perm_vars
    /\ UNCHANGED driver_vars
    /\ UNCHANGED tool_vars

\* _execute_tool_calls reaches a call whose name is not registered
DispatchUnknown ==
    /\ pc = "tools"
    /\ idx < Len(tool_calls)
    /\ tool_calls[idx + 1].name \notin DOMAIN available_tools
    /\ tool_results' = Append(tool_results, NotFoundResult(variant, tool_calls[idx + 1]))
    /\ idx' = idx + 1
    /\ UNCHANGED <<backend_calls, variant, available_tools, reg_log, conversation_history, pc,
                   tool_calls, invocations, chat_return, last_exc, hist_before,
                   rounds, cur_message, resp_text>>
    /\ UNCHANGED perm_vars
    /\ UNCHANGED driver_vars
    /\ UNCHANGED tool_vars

NoValue == PyStr("")

StartEvent(call) ==
    [ev |-> "start", i |-> idx + 1,
     function |-> available_tools[call.name].function,
     arguments |-> CallArguments(variant, call),
     outcome |-> "", value |-> NoValue, exc |-> ""]

EndEvent(call, outcome, value, exc) ==
    [ev |-> "end", i |-> idx + 1,
     function |-> available_tools[call.name].function,
     arguments |-> CallArguments(variant, call),
     outcome |-> outcome, value |-> value, exc |-> exc]

\* _execute_tool_calls calls the registered callable
ToolStart ==
    /\ pc = "tools"
    /\ idx < Len(tool_calls)
    /\ tool_calls[idx + 1].name \in DOMAIN available_tools
    /\ invocations' = Append(invocations, StartEvent(tool_calls[idx + 1]))
    /\ pc' = "in_tool"
    /\ UNCHANGED <<backend_calls, variant, available_tools, reg_log, conversation_history,
                   tool_calls, tool_results, idx, chat_return, last_exc,
                   hist_before, rounds, cur_message, resp_text>>
    /\ UNCHANGED perm_vars
    /\ UNCHANGED driver_vars
    /\ UNCHANGED tool_vars


\* the callable returns a value
ToolReturns ==
    /\ pc = "in_tool"
    /\ \E value \in ToolValues :
        LET call == tool_calls[idx + 1] IN
        /\ tool_results' = Append(tool_results, ReturnedResult(variant, call, value))
        /\ conversation_history' =
             IF variant = "ollama" /\ HasGet(value)
             THEN Append(conversation_history, OllamaToolTurn(call, value))
             ELSE conversation_history
        /\ invocations' = Append(invocations, EndEvent(call, "returned", value, ""))
    /\ idx' = idx + 1
    /\ pc' = "tools"
    /\ UNCHANGED <<backend_calls, variant, available_tools, reg_log, tool_calls, chat_return,
                   last_exc, hist_before, rounds, cur_message, resp_text>>
    /\ UNCHANGED perm_vars
    /\ UNCHANGED driver_vars
    /\ UNCHANGED tool_vars

\* the callable raises
ToolRaises ==
    /\ pc = "in_tool"
    /\ \E e \in ExcTexts :
        LET call == tool_calls[idx + 1] IN
        /\ tool_results' = Append(tool_results, RaisedResult(variant, call, e))
        /\ invocations' = Append(invocations, EndEvent(call, "raised", NoValue, e))
    /\ idx' = idx + 1
    /\ pc' = "tools"
    /\ UNCHANGED <<backend_calls, variant, available_tools, reg_log, conversation_history,
                   tool_calls, chat_return, last_exc, hist_before, rounds,
                   cur_message, resp_text>>
    /\ UNCHANGED perm_vars
    /\ UNCHANGED driver_vars
    /\ UNCHANGED tool_vars

\* OllamaAgent.chat's agent_tool_calls
AgentToolCalls(results) ==
    [i \in 1..Len(results) |->
        [name |-> results[i].name, parameters |-> results[i].parameters,
         output |-> results[i].output, error |-> results[i].error]]

\* a chat() that sends the results with the follow-up call and leaves the
\* history as it is
ExecuteDone_results_not_recorded ==
    /\ pc = "tools"
    /\ idx = Len(tool_calls)
    /\ IF variant = "ollama"
       THEN /\ chat_return' = ReturnResponse(enhance_content(resp_text, cur_message),
                                             AgentToolCalls(tool_results))
            /\ pc' = "idle"
            /\ UNCHANGED <<conversation_history, backend_calls>>
       ELSE IF variant = "claude" /\ tool_results = <<>>
       THEN /\ chat_return' = ReturnText(
                 "Error: Failed to execute tool calls. Please try a different query.")
            /\ pc' = "idle"
            /\ UNCHANGED <<conversation_history, backend_calls>>
       ELSE /\ UNCHANGED conversation_history
            /\ backend_calls' =
                 Append(backend_calls,
                        BackendStart(2, conversation_history
                                        \o ResultTurns(variant, tool_results), idx))
            /\ pc' = "call2"
            /\ UNCHANGED chat_return
    /\ UNCHANGED <<variant, available_tools, reg_log, tool_calls, tool_results,
                   idx, invocations, last_exc, hist_before, rounds, cur_message,
                   resp_text>>
    /\ UNCHANGED perm_vars
    /\ UNCHANGED driver_vars
    /\ UNCHANGED tool_vars

\* _execute_tool_calls has returned: chat() records the results
ExecuteDone ==
    /\ pc = "tools"
    /\ idx = Len(tool_calls)
    /\ IF variant = "ollama"
       THEN /\ chat_return' = ReturnResponse(enhance_content(resp_text, cur_message),
                                             AgentToolCalls(tool_results))
            /\ pc' = "idle"
            /\ UNCHANGED <<conversation_history, backend_calls>>
       ELSE IF variant = "claude" /\ tool_results = <<>>
       THEN /\ chat_return' = ReturnText(
                 "Error: Failed to execute tool calls. Please try a different query.")
            /\ pc' = "idle"
            /\ UNCHANGED <<conversation_history, backend_calls>>
       ELSE /\ conversation_history' =
                 conversation_history \o ResultTurns(variant, tool_results)
            /\ backend_calls' =
                 Append(backend_calls, BackendStart(2, conversation_history', idx))
            /\ pc' = "call2"
            /\ UNCHANGED chat_return
    /\ UNCHANGED <<variant, available_tools, reg_log, tool_calls, tool_results,
                   idx, invocations, last_exc, hist_before, rounds, cur_message,
                   resp_text>>
    /\ UNCHANGED perm_vars
    /\ UNCHANGED driver_vars
    /\ UNCHANGED tool_vars

\* the follow-up backend call raises
SecondCallFails ==
    /\ pc = "call2"
    /\ \E exc \in ExcKindsOf(variant) :
        /\ chat_return' = chat_except(variant, exc)
        /\ last_exc' = [at |-> 2, kind |-> exc]
    /\ pc' = "idle"
    /\ UNCHANGED <<variant, available_tools, reg_log, conversation_history,
                   tool_calls, tool_results, idx, invocations, hist_before,
                   rounds, cur_message, resp_text>>
    /\ backend_calls' = Append(backend_calls, BackendEnd(2))
    /\ UNCHANGED perm_vars
    /\ UNCHANGED driver_vars
    /\ UNCHANGED tool_vars

\* what the follow-up response can hold: ClaudeAgent joins its text blocks
\* (none gives ""), OpenAIAgent reads message.content, which may be None
FollowUpContents(v) == IF v = "openai" THEN Texts \cup {PyNone} ELSE Texts

\* the falsy contents: "" and None
NoText(content) == content \in {"", PyNone}

\* what chat() returns after the follow-up call: the joined text
\* (ClaudeAgent), message.content or "" (OpenAIAgent)
FollowUpReturn_fallback(v, content) ==
    IF NoText(content)
    THEN ReturnText("Error: Failed to execute tool calls. Please try a different query.")
    ELSE ReturnText(content)

FollowUpReturn(v, content) ==
    IF v = "openai" /\ NoText(content) THEN ReturnText("") ELSE ReturnText(content)

\* the follow-up backend call returns
SecondCallReturns ==
    /\ pc = "call2"
    /\ \E content \in FollowUpContents(variant) :
        /\ conversation_history' = Append(conversation_history, AssistantTurn(content))
        /\ chat_return' = FollowUpReturn(variant, content)
    /\ pc' = "idle"
    /\ UNCHANGED <<variant, available_tools, reg_log, tool_calls, tool_results,
                   idx, invocations, last_exc, hist_before, rounds, cur_message,
                   resp_text>>
    /\ backend_calls' = Append(backend_calls, BackendEnd(2))
    /\ UNCHANGED perm_vars
    /\ UNCHANGED driver_vars
    /\ UNCHANGED tool_vars

----------------------------------------------------------------------------
(* register_tool as a step *)

RegisterTool ==
    /\ pc = "idle"
    /\ Len(reg_log) < MaxRegistrations
    /\ \E name \in ToolNames, function \in Functions,
          description \in Descriptions, parameters \in ParamSpecs :
        /\ available_tools' =
              register_tool(available_tools, name, function, description, parameters)
        /\ reg_log' = Append(reg_log, [name |-> name, function |-> function,
                                       description |-> description,
                                       parameters |-> parameters])
    /\ UNCHANGED <<backend_calls, variant, conversation_history, pc, tool_calls, tool_results,
                   idx, invocations, chat_return, last_exc, hist_before, rounds,
                   cur_message, resp_text>>
    /\ UNCHANGED perm_vars
    /\ UNCHANGED driver_vars
    /\ UNCHANGED tool_vars

\* the agent as its constructor leaves it
InitAgentFresh ==
    /\ available_tools = EmptyRegistry
    /\ reg_log = <<>>
    /\ conversation_history = <<>>
    /\ pc = "idle"
    /\ tool_calls = <<>>
    /\ tool_results = <<>>
    /\ idx = 0
    /\ invocations = <<>>
    /\ chat_return = NoReturn
    /\ last_exc = NoExc
    /\ hist_before = 0
    /\ rounds = 0
    /\ cur_message = ""
    /\ resp_text = ""
    /\ backend_calls = <<>>

\* run_agent_interactive has not been called
\* the path that is not a file
Absent == "<absent>"

\* the paths the tools are asked to work on, and what the files hold
Files == {"a.txt", "b.txt"}
Contents == {"v1"}

\* no tool has run and no file exists
InitToolsIdle ==
    /\ agent_ref = "none"
    /\ fs = [f \in Files |-> Absent]
    /\ processes = <<>>
    /\ tool_log = <<>>

InitDriverIdle ==
    /\ d_pc = "off"
    /\ iteration = 1
    /\ max_iterations = 0
    /\ auto_continue = TRUE
    /\ query = ""
    /\ response = ""
    /\ pending_calls = <<>>
    /\ user_prompt = ""
    /\ user_input = ""
    /\ cur_exc = ""
    /\ recent_errors = <<>>
    /\ d_outcome = ""
    /\ d_return = ""
    /\ main_rounds = <<>>
    /\ input_log = <<>>
    /\ aux_log = <<>>
    /\ current_iteration_tool_calls = 0
    /\ max_tool_calls_per_iteration = 0
    /\ ui_tool_calls = <<>>
    /\ ui_command_history = <<>>
    /\ created_or_modified_files = {}
    /\ retries = 0

----------------------------------------------------------------------------
(* Permission policy *)

GRANTED == "granted"
DENIED == "denied"
NEEDS_CONFIRMATION == "needs_confirmation"
PermissionStatus == {GRANTED, DENIED, NEEDS_CONFIRMATION}

Tokens == {"sudo", "ls"}
Commands == {"sudo ls /", "ls -la", "echo hi", "rm -rf /", "", "false",
             "echo hi && ls"}
Operations == {"run_terminal_command", "delete_file", "edit_file"}

TokenLists == UNION {[1..n -> Tokens] : n \in 0..MaxListLen}

\* the details mappings a tool passes: with or without a "command" key
DetailsSet ==
    {[command |-> c] : c \in Commands}
        \cup {[target_file |-> "a.txt"]}

PermissionOptions ==
    [yolo_mode : BOOLEAN,
     command_allowlist : TokenLists,
     command_denylist : TokenLists,
     delete_file_protection : BOOLEAN]

PermissionRequest(operation, details) ==
    [operation |-> operation, details |-> details]

NoRequest == [operation |-> "", details |-> [target_file |-> ""]]

\* request.details.get("command", "")
DetailsCommand(details) ==
    IF "command" \in DOMAIN details THEN details.command ELSE ""

\* Variants of _evaluate_permission, each with one plausible slip.
\* yolo_mode consulted before the delete protection
_evaluate_permission_yolo_first(opts, request) ==
    LET command == DetailsCommand(request.details) IN
    IF /\ request.operation = "run_terminal_command"
       /\ Len(opts.command_denylist) > 0
       /\ AnyIn(opts.command_denylist, command)
    THEN DENIED
    ELSE IF opts.yolo_mode
    THEN IF request.operation = "run_terminal_command"
         THEN IF /\ Len(opts.command_allowlist) > 0
                 /\ ~AnyIn(opts.command_allowlist, command)
              THEN NEEDS_CONFIRMATION
              ELSE GRANTED
         ELSE GRANTED
    ELSE NEEDS_CONFIRMATION

\* the denylist compared with the whole command instead of searched in it
_evaluate_permission_deny_exact(opts, request) ==
    LET command == DetailsCommand(request.details) IN
    IF /\ request.operation = "run_terminal_command"
       /\ \E k \in 1..Len(opts.command_denylist) : opts.command_denylist[k] = command
    THEN DENIED
    ELSE IF request.operation = "delete_file" /\ opts.delete_file_protection
    THEN NEEDS_CONFIRMATION
    ELSE IF opts.yolo_mode
    THEN IF request.operation = "run_terminal_command"
         THEN IF /\ Len(opts.command_allowlist) > 0
                 /\ ~AnyIn(opts.command_allowlist, command)
              THEN NEEDS_CONFIRMATION
              ELSE GRANTED
         ELSE GRANTED
    ELSE NEEDS_CONFIRMATION

\* the allowlist consulted outside yolo_mode too
_evaluate_permission_allow_always(opts, request) ==
    LET command == DetailsCommand(request.details) IN
    IF /\ request.operation = "run_terminal_command"
       /\ Len(opts.command_denylist) > 0
       /\ AnyIn(opts.command_denylist, command)
    THEN DENIED
    ELSE IF request.operation = "delete_file" /\ opts.delete_file_protection
    THEN NEEDS_CONFIRMATION
    ELSE IF /\ request.operation = "run_terminal_command"
            /\ AnyIn(opts.command_allowlist, command)
    THEN GRANTED
    ELSE IF opts.yolo_mode
    THEN IF request.operation = "run_terminal_command"
         THEN IF Len(opts.command_allowlist) > 0
              THEN NEEDS_CONFIRMATION
              ELSE GRANTED
         ELSE GRANTED
    ELSE NEEDS_CONFIRMATION

\* the allowlist test without its negation
_evaluate_permission_allow_inverted(opts, request) ==
    LET command == DetailsCommand(request.details) IN
    IF /\ request.operation = "run_terminal_command"
       /\ Len(opts.command_denylist) > 0
       /\ AnyIn(opts.command_denylist, command)
    THEN DENIED
    ELSE IF request.operation = "delete_file" /\ opts.delete_file_protection
    THEN NEEDS_CONFIRMATION
    ELSE IF opts.yolo_mode
    THEN IF request.operation = "run_terminal_command"
         THEN IF /\ Len(opts.command_allowlist) > 0
                 /\ AnyIn(opts.command_allowlist, command)
              THEN NEEDS_CONFIRMATION
              ELSE GRANTED
         ELSE GRANTED
    ELSE NEEDS_CONFIRMATION

\* the denylist applied to the command of every operation
_evaluate_permission_deny_any_operation(opts, request) ==
    LET command == DetailsCommand(request.details) IN
    IF /\ Len(opts.command_denylist) > 0
       /\ AnyIn(opts.command_denylist, command)
    THEN DENIED
    ELSE IF request.operation = "delete_file" /\ opts.delete_file_protection
    THEN NEEDS_CONFIRMATION
    ELSE IF opts.yolo_mode
    THEN IF request.operation = "run_terminal_command"
         THEN IF /\ Len(opts.command_allowlist) > 0
                 /\ ~AnyIn(opts.command_allowlist, command)
              THEN NEEDS_CONFIRMATION
              ELSE GRANTED
         ELSE GRANTED
    ELSE NEEDS_CONFIRMATION

\* an evaluation whose allowlist names the commands a line may start with
_evaluate_permission_allow_prefix(opts, request) ==
    LET command == DetailsCommand(request.details) IN
    IF /\ request.operation = "run_terminal_command"
       /\ Len(opts.command_denylist) > 0
       /\ AnyIn(opts.command_denylist, command)
    THEN DENIED
    ELSE IF request.operation = "delete_file" /\ opts.delete_file_protection
    THEN NEEDS_CONFIRMATION
    ELSE IF opts.yolo_mode
    THEN IF request.operation = "run_terminal_command"
         THEN IF /\ Len(opts.command_allowlist) > 0
                 /\ ~\E k \in 1..Len(opts.command_allowlist) :
                        StartsWith(opts.command_allowlist[k], command)
              THEN NEEDS_CONFIRMATION
              ELSE GRANTED
         ELSE GRANTED
    ELSE NEEDS_CONFIRMATION

\* PermissionManager._evaluate_permission
_evaluate_permission(opts, request) ==
    LET command == DetailsCommand(request.details) IN
    IF /\ request.operation = "run_terminal_command"
       /\ Len(opts.command_denylist) > 0
       /\ AnyIn(opts.command_denylist, command)
    THEN DENIED
    ELSE IF request.operation = "delete_file" /\ opts.delete_file_protection
    THEN NEEDS_CONFIRMATION
    ELSE IF opts.yolo_mode
    THEN IF request.operation = "run_terminal_command"
         THEN IF /\ Len(opts.command_allowlist) > 0
                 /\ ~AnyIn(opts.command_allowlist, command)
              THEN IF StrContains("rm -rf /", command)
                   THEN NEEDS_CONFIRMATION
                   ELSE NEEDS_CONFIRMATION
              ELSE GRANTED
         ELSE GRANTED
    ELSE NEEDS_CONFIRMATION

\* what a callback can hand back: a PermissionStatus, or None
CallbackResults == PermissionStatus \cup {PyNone}

\* request_permission returning True for every callback result but DENIED
CallbackGrants_unless_denied(cb_result) == cb_result # DENIED

\* callback_result == PermissionStatus.GRANTED
CallbackGrants(cb_result) == cb_result = GRANTED

\* request_permission(operation, details): evaluation, then the callback or
\* the blocking prompt.  cb_result is what the callback returns, answer the
\* valid answer the prompt loop ends on.
request_permission(operation, details) ==
    LET request == PermissionRequest(operation, details)
        status == _evaluate_permission(options, request)
    IN  /\ perm_count < MaxRequests
        /\ perm_count' = perm_count + 1
        /\ perm_request' = request
        /\ perm_status' = status
        /\ IF status = GRANTED
           THEN /\ perm_result' = TRUE
                /\ perm_channel' = "none"
                /\ UNCHANGED <<callback_calls, prompt_calls>>
           ELSE IF status = DENIED
           THEN /\ perm_result' = FALSE
                /\ perm_channel' = "none"
                /\ UNCHANGED <<callback_calls, prompt_calls>>
           ELSE IF status = NEEDS_CONFIRMATION /\ callback = "set"
           THEN /\ \E cb_result \in CallbackResults :
                       /\ callback_calls' =
                             Append(callback_calls,
                                    [request |-> request, returned |-> cb_result])
                       /\ perm_result' = CallbackGrants(cb_result)
                /\ perm_channel' = "callback"
                /\ UNCHANGED prompt_calls
           ELSE /\ prompt_calls' = prompt_calls + 1
                /\ \E answer \in {"y", "n"} :
                       perm_result' = (answer = "y")
                /\ perm_channel' = "prompt"
                /\ UNCHANGED callback_calls
        /\ UNCHANGED <<options, callback>>

RequestPermission ==
    /\ \E operation \in Operations, details \in DetailsSet :
          request_permission(operation, details)
    /\ UNCHANGED agent_vars
    /\ UNCHANGED driver_vars
    /\ UNCHANGED tool_vars

\* a PermissionManager constructed with default options and no callback
InitPermDefault ==
    /\ options = [yolo_mode |-> FALSE, command_allowlist |-> <<>>,
                  command_denylist |-> <<>>, delete_file_protection |-> TRUE]
    /\ callback = "none"
    /\ perm_request = NoRequest
    /\ perm_status = "none"
    /\ perm_result = FALSE
    /\ callback_calls = <<>>
    /\ prompt_calls = 0
    /\ perm_channel = "none"
    /\ perm_count = 0

InitPerm ==
    /\ InitAgentFresh
    /\ variant = "openai"
    /\ options \in PermissionOptions
    /\ callback \in {"none", "set"}
    /\ InitDriverIdle
    /\ InitToolsIdle
    /\ perm_request = NoRequest
    /\ perm_status = "none"
    /\ perm_result = FALSE
    /\ callback_calls = <<>>
    /\ prompt_calls = 0
    /\ perm_channel = "none"
    /\ perm_count = 0

NextPerm == RequestPermission

SpecPerm == InitPerm /\ [][NextPerm]_vars

----------------------------------------------------------------------------
(* The default tools: src/agent/tools/file_tools.py, system_tools.py *)

MaxToolRuns == 2

\* how the registered callables hand the agent to the tool functions:
\* OpenAIAgent.register_default_tools registers the functions themselves and
\* the dispatcher calls function(**arguments), so agent keeps its default
\* None ("none"); register_tools.register_default_tools registers lambdas
\* that pass the agent ("bound")
AgentRefs == {"none", "bound"}

CodeEdits == {"v2"}
Instructions == "rewrite it"
Explanation == "look around"
ToolCommands == {"ls -la", "sudo ls /", "rm -rf /", "head a.txt"}
ExitCodes == {0, 1}

\* the option sets the tools are run under
ToolOptions ==
    {o \in PermissionOptions :
        /\ o.command_allowlist = <<>>
        /\ o.command_denylist \in {<<>>, <<"sudo">>}}

\* Python's s.endswith(suffix)
EndsWith(s, suffix) ==
    Len(suffix) <= Len(s) /\ SubSeq(s, Len(s) - Len(suffix) + 1, Len(s)) = suffix

\* x in lst, for a list
InList(x, lst) == \E k \in 1..Len(lst) : lst[k] = x

\* text[:100] + ("..." if len(text) > 100 else "")
PreviewLen == 100
Preview(text) ==
    IF Len(text) > PreviewLen THEN SubSeq(text, 1, PreviewLen) \o "..." ELSE text

\* apply_edit on a code_edit without an "existing code" marker: the edit is
\* the new content
apply_edit(original_content, code_edit) == code_edit

\* `if agent:` followed by agent.request_permission(operation, details),
\* which hands the request to the PermissionManager
AskPermission(operation, details) ==
    IF agent_ref = "bound"
    THEN request_permission(operation, details)
    ELSE UNCHANGED perm_vars

\* the tool goes on: no agent was handed over, or the request returned True
MayAct == agent_ref = "bound" => perm_result'

\* what the run's record says about the permission request
Asked == IF agent_ref = "bound"
         THEN (IF perm_result' THEN "granted" ELSE "refused")
         ELSE "not asked"

ToolRun(tool, asked, acted, result) ==
    [tool |-> tool, asked |-> asked, acted |-> acted, result |-> result,
     raised |-> FALSE]

\* edit_file(target_file, instructions, code_edit, agent)
edit_file(target_file, instructions, code_edit) ==
    /\ Len(tool_log) < MaxToolRuns
    /\ AskPermission("edit_file",
                     [target_file |-> target_file, instructions |-> instructions,
                      code_edit_preview |-> Preview(code_edit)])
    /\ IF ~MayAct
       THEN /\ tool_log' = Append(tool_log,
                 ToolRun("edit_file", Asked, FALSE,
                         [status |-> "error",
                          message |-> "Permission denied to edit file"]))
            /\ UNCHANGED fs
       ELSE IF fs[target_file] = Absent
       THEN /\ tool_log' = Append(tool_log,
                 ToolRun("edit_file", Asked, FALSE,
                         [status |-> "error",
                          message |-> "File " \o target_file \o " does not exist"]))
            /\ UNCHANGED fs
       ELSE /\ fs' = [fs EXCEPT ![target_file] = apply_edit(@, code_edit)]
            /\ tool_log' = Append(tool_log,
                 ToolRun("edit_file", Asked, TRUE,
                         [status |-> "success",
                          message |-> "Successfully edited " \o target_file]))
    /\ UNCHANGED <<agent_ref, processes>>

\* delete_file(target_file, agent)
delete_file(target_file) ==
    /\ Len(tool_log) < MaxToolRuns
    /\ AskPermission("delete_file",
                     [target_file |-> target_file, operation |-> "delete"])
    /\ IF ~MayAct
       THEN /\ tool_log' = Append(tool_log,
                 ToolRun("delete_file", Asked, FALSE,
                         [status |-> "error",
                          message |-> "Permission denied to delete file"]))
            /\ UNCHANGED fs
       ELSE IF fs[target_file] = Absent
       THEN /\ tool_log' = Append(tool_log,
                 ToolRun("delete_file", Asked, FALSE,
                         [status |-> "error",
                          message |-> "File " \o target_file \o " does not exist"]))
            /\ UNCHANGED fs
       ELSE /\ fs' = [fs EXCEPT ![target_file] = Absent]
            /\ tool_log' = Append(tool_log,
                 ToolRun("delete_file", Asked, TRUE,
                         [status |-> "success",
                          message |-> "Deleted file " \o target_file]))
    /\ UNCHANGED <<agent_ref, processes>>

\* create_file(file_path, content, agent)
create_file(file_path, content) ==
    /\ Len(tool_log) < MaxToolRuns
    /\ AskPermission("create_file",
                     [file_path |-> file_path, content_preview |-> Preview(content)])
    /\ IF ~MayAct
       THEN /\ tool_log' = Append(tool_log,
                 ToolRun("create_file", Asked, FALSE,
                         [status |-> "error",
                          message |-> "Permission denied to create file"]))
            /\ UNCHANGED fs
       ELSE /\ fs' = [fs EXCEPT ![file_path] = content]
            /\ tool_log' = Append(tool_log,
                 ToolRun("create_file", Asked, TRUE,
                         [status |-> "success",
                          message |-> (IF fs[file_path] # Absent
                                       THEN "Updated file at "
                                       ELSE "Created file at ") \o file_path]))
    /\ UNCHANGED <<agent_ref, processes>>

dangerous_commands == <<"rm -rf", "sudo rm", "dd", "mkfs", "format", ":(){:|:&};:">>
pager_commands == <<"less", "more", "git diff", "git show", "head", "tail">>

\* the first dangerous pattern found in the command
FirstDangerous(command) ==
    dangerous_commands[CHOOSE k \in 1..Len(dangerous_commands) :
        /\ StrContains(dangerous_commands[k], command)
        /\ \A j \in 1..(k - 1) : ~StrContains(dangerous_commands[j], command)]

\* the command line handed to Popen: " &" for a background command, and
\* " | cat" for a command that would use a pager
PopenCommand(command, is_background) ==
    LET bg == IF is_background /\ ~EndsWith(StripChars(command, " \t\n\r"), "&")
              THEN command \o " &" ELSE command
    IN  IF /\ \E k \in 1..Len(pager_commands) :
                \/ StartsWith(pager_commands[k], bg)
                \/ StrContains(" " \o pager_commands[k] \o " ", bg)
           /\ ~StrContains(" | cat", bg)
        THEN bg \o " | cat" ELSE bg

PermissionErrorText(command) ==
    "Permission denied to execute command: " \o command

\* run_terminal_command(command, explanation, is_background, ..., agent)
run_terminal_command(command, explanation, is_background) ==
    /\ Len(tool_log) < MaxToolRuns
    /\ IF AnyIn(dangerous_commands, command)
       THEN /\ tool_log' = Append(tool_log,
                 ToolRun("run_terminal_command", "not asked", FALSE,
                         [error |-> "Command '" \o command
                              \o "' contains potentially dangerous operation '"
                              \o FirstDangerous(command)
                              \o "'. Execution aborted."]))
            /\ UNCHANGED perm_vars
            /\ UNCHANGED processes
       ELSE IF /\ agent_ref = "bound"
               /\ StrContains("sudo", command)
               /\ Len(options.command_denylist) > 0
               /\ InList("sudo", options.command_denylist)
       THEN /\ tool_log' = Append(tool_log,
                 ToolRun("run_terminal_command", "not asked", FALSE,
                         [error |-> PermissionErrorText(command)]))
            /\ UNCHANGED perm_vars
            /\ UNCHANGED processes
       ELSE /\ AskPermission("run_terminal_command",
                             [command |-> command, explanation |-> explanation,
                              is_background |-> is_background])
            /\ IF ~MayAct
               THEN /\ tool_log' = Append(tool_log,
                         ToolRun("run_terminal_command", Asked, FALSE,
                                 [error |-> PermissionErrorText(command)]))
                    /\ UNCHANGED processes
               ELSE \E code \in ExitCodes :
                    /\ processes' = Append(processes,
                                           PopenCommand(command, is_background))
                    /\ tool_log' = Append(tool_log,
                         ToolRun("run_terminal_command", Asked, TRUE,
                                 [command |-> PopenCommand(command, is_background),
                                  exit_code |-> code,
                                  error |-> IF code # 0
                                            THEN "Command failed with exit code "
                                                 \o ToString(code)
                                            ELSE PyNone]))
    /\ UNCHANGED <<agent_ref, fs>>

EditFile ==
    /\ \E target_file \in Files, code_edit \in CodeEdits :
          edit_file(target_file, Instructions, code_edit)
    /\ UNCHANGED agent_vars
    /\ UNCHANGED driver_vars

DeleteFile ==
    /\ \E target_file \in Files : delete_file(target_file)
    /\ UNCHANGED agent_vars
    /\ UNCHANGED driver_vars

CreateFile ==
    /\ \E file_path \in Files, content \in CodeEdits : create_file(file_path, content)
    /\ UNCHANGED agent_vars
    /\ UNCHANGED driver_vars

RunTerminalCommand ==
    /\ \E command \in ToolCommands, is_background \in BOOLEAN :
          run_terminal_command(command, Explanation, is_background)
    /\ UNCHANGED agent_vars
    /\ UNCHANGED driver_vars

InitTools ==
    /\ InitAgentFresh
    /\ variant = "openai"
    /\ InitDriverIdle
    /\ options \in ToolOptions
    /\ callback \in {"none", "set"}
    /\ perm_request = NoRequest
    /\ perm_status = "none"
    /\ perm_result = FALSE
    /\ callback_calls = <<>>
    /\ prompt_calls = 0
    /\ perm_channel = "none"
    /\ perm_count = 0
    /\ agent_ref \in AgentRefs
    /\ fs \in [Files -> Contents \cup {Absent}]
    /\ processes = <<>>
    /\ tool_log = <<>>

NextTools == EditFile \/ DeleteFile \/ CreateFile \/ RunTerminalCommand

SpecTools == InitTools /\ [][NextTools]_vars

----------------------------------------------------------------------------
(* Specifications *)

\* the registry alone: any sequence of register_tool calls
InitRegistry ==
    /\ InitAgentFresh
    /\ variant \in {"claude", "openai", "ollama"}
    /\ InitPermDefault
    /\ InitDriverIdle
    /\ InitToolsIdle

NextRegistry == RegisterTool

SpecRegistry == InitRegistry /\ [][NextRegistry]_vars

\* chat rounds of an agent on which read_file has been registered
Init ==
    /\ variant \in {"claude", "openai", "ollama"}
    /\ available_tools = register_tool(EmptyRegistry, "read_file", "f1", "d1", "p1")
    /\ reg_log = <<[name |-> "read_file", function |-> "f1", description |-> "d1",
                    parameters |-> "p1"]>>
    /\ conversation_history = <<>>
    /\ pc = "idle"
    /\ tool_calls = <<>>
    /\ tool_results = <<>>
    /\ idx = 0
    /\ invocations = <<>>
    /\ chat_return = NoReturn
    /\ last_exc = NoExc
    /\ hist_before = 0
    /\ rounds = 0
    /\ cur_message = ""
    /\ resp_text = ""
    /\ backend_calls = <<>>
    /\ InitPermDefault
    /\ InitDriverIdle
    /\ InitToolsIdle

Next ==
    \/ ChatStart
    \/ FirstCallFails
    \/ FirstCallReturns
    \/ DispatchUnknown
    \/ ToolStart
    \/ ToolReturns
    \/ ToolRaises
    \/ ExecuteDone
    \/ SecondCallFails
    \/ SecondCallReturns

Spec == Init /\ [][Next]_vars

\* chat() is called once more on the agent a round has left behind
ChatAgain == ChatStartWithin(MaxRounds + 1)

NextRounds ==
    \/ ChatAgain
    \/ FirstCallFails
    \/ FirstCallReturns
    \/ DispatchUnknown
    \/ ToolStart
    \/ ToolReturns
    \/ ToolRaises
    \/ ExecuteDone
    \/ SecondCallFails
    \/ SecondCallReturns

\* the rounds of chat() on one agent, one after the other
SpecRounds == Init /\ [][NextRounds]_vars


----------------------------------------------------------------------------
(* Claims about the permission policy, checked under SpecPerm *)

\* the denylist matches the last request
DenylistHit ==
    /\ perm_request.operation = "run_terminal_command"
    /\ AnyIn(options.command_denylist, DetailsCommand(perm_request.details))

\* C1: with delete_file_protection on, a "delete_file" request evaluates to
\* NEEDS_CONFIRMATION whatever yolo_mode and the two lists are, and
\* request_permission answers it only through the callback or the prompt.
C1_DeleteProtected ==
    (/\ perm_count > 0
     /\ perm_request.operation = "delete_file"
     /\ options.delete_file_protection)
        => /\ perm_status = NEEDS_CONFIRMATION
           /\ perm_channel \in {"callback", "prompt"}

C1_Witness ==
    /\ perm_count > 0
    /\ perm_request.operation = "delete_file"
    /\ options.delete_file_protection
    /\ options.yolo_mode
    /\ Len(options.command_allowlist) > 0
    /\ Len(options.command_denylist) > 0
    /\ perm_status = NEEDS_CONFIRMATION
    /\ perm_result

\* C2: a run_terminal_command whose command contains a denylist entry is
\* DENIED and request_permission returns False, yolo_mode and allowlist
\* notwithstanding.
C2_DenylistDenies ==
    (perm_count > 0 /\ DenylistHit)
        => /\ perm_status = DENIED
           /\ perm_result = FALSE
           /\ perm_channel = "none"

C2_Witness ==
    /\ perm_count > 0
    /\ options.yolo_mode
    /\ options.command_denylist = <<"sudo">>
    /\ options.command_allowlist = <<"ls">>
    /\ perm_request = PermissionRequest("run_terminal_command",
                                        [command |-> "sudo ls /"])
    /\ perm_status = DENIED
    /\ perm_result = FALSE

\* C3: without yolo_mode every request the denylist does not match evaluates
\* to NEEDS_CONFIRMATION, never to GRANTED.
C3_NoYoloNeedsConfirmation ==
    (perm_count > 0 /\ ~options.yolo_mode /\ ~DenylistHit)
        => perm_status = NEEDS_CONFIRMATION

C3_Witness ==
    /\ perm_count > 0
    /\ ~options.yolo_mode
    /\ ~options.delete_file_protection
    /\ options.command_allowlist = <<"ls">>
    /\ perm_request = PermissionRequest("run_terminal_command",
                                        [command |-> "ls -la"])
    /\ perm_status = NEEDS_CONFIRMATION

\* C4: in yolo_mode, a request caught neither by the denylist nor by the
\* delete protection: a shell command is GRANTED when the allowlist is empty
\* or matches and NEEDS_CONFIRMATION otherwise; any other operation is GRANTED.
C4_YoloAllowlist ==
    (/\ perm_count > 0
     /\ options.yolo_mode
     /\ ~DenylistHit
     /\ ~(perm_request.operation = "delete_file" /\ options.delete_file_protection))
        => perm_status =
             IF perm_request.operation = "run_terminal_command"
             THEN IF \/ Len(options.command_allowlist) = 0
                     \/ AnyIn(options.command_allowlist,
                              DetailsCommand(perm_request.details))
                  THEN GRANTED
                  ELSE NEEDS_CONFIRMATION
             ELSE GRANTED

C4_Witness ==
    /\ perm_count > 0
    /\ options.yolo_mode
    /\ options.command_allowlist = <<"ls">>
    /\ options.command_denylist = <<"sudo">>
    /\ perm_request = PermissionRequest("run_terminal_command",
                                        [command |-> "echo hi"])
    /\ perm_status = NEEDS_CONFIRMATION

----------------------------------------------------------------------------
(* Reading a tool-call result, per agent *)

\* how each agent marks a result as an error: ClaudeAgent sets is_error,
\* OpenAIAgent sends a JSON object with an "error" entry as the content,
\* OllamaAgent fills the error field
IsErrorResult(v, r) ==
    IF v = "claude" THEN r.is_error
    ELSE IF v = "openai" THEN StartsWith("{\"error\": ", r.content)
    ELSE r.error # PyNone

ErrorText(v, r) == IF v = "ollama" THEN r.error ELSE r.content

ResultId(v, r) == IF v = "claude" THEN r.tool_use_id ELSE r.tool_call_id

UnknownCall(i) == tool_calls[i].name \notin DOMAIN available_tools

Invoked(i) == \E j \in 1..Len(invocations) : invocations[j].i = i

RaisedEvents ==
    {j \in 1..Len(invocations) :
        invocations[j].ev = "end" /\ invocations[j].outcome = "raised"}

\* the round has ended and chat() returned a reply, not an error text
RoundSucceeded ==
    /\ rounds > 0
    /\ pc = "idle"
    /\ chat_return.kind \in {"text", "response"}

----------------------------------------------------------------------------
(* Claims about the registry, checked under SpecRegistry *)

LastRegistration(name) ==
    LET hits == {i \in 1..Len(reg_log) : reg_log[i].name = name}
    IN  reg_log[CHOOSE i \in hits : \A j \in hits : j <= i]

\* C8: after any sequence of register_tool calls the registry has one record
\* for each registered name and no other, and each record holds the callable
\* and the schema of the latest registration under its name.
C8_LastRegistrationWins ==
    /\ DOMAIN available_tools = {reg_log[i].name : i \in 1..Len(reg_log)}
    /\ \A n \in DOMAIN available_tools :
          LET last == LastRegistration(n) IN
          /\ available_tools[n].function = last.function
          /\ available_tools[n].schema =
                [name |-> n, description |-> last.description,
                 parameters |-> last.parameters]

C8_Witness ==
    /\ Len(reg_log) = 3
    /\ reg_log[1].name = "read_file"
    /\ reg_log[2].name = "edit_file"
    /\ reg_log[3].name = "read_file"
    /\ reg_log[3].function # reg_log[1].function
    /\ reg_log[3].description # reg_log[1].description
    /\ available_tools["read_file"].function = reg_log[3].function
    /\ available_tools["edit_file"].function = reg_log[2].function

----------------------------------------------------------------------------
(* Claims about a chat round, checked under Spec *)

\* C5: a tool call whose name is not registered gets a result marked as an
\* error that says the tool was not found; no callable is invoked for it and
\* the dispatcher goes on without raising.
C5_UnknownToolIsError ==
    \A i \in 1..Len(tool_calls) :
        UnknownCall(i) =>
            /\ ~Invoked(i)
            /\ i <= idx =>
                  /\ i <= Len(tool_results)
                  /\ IsErrorResult(variant, tool_results[i])
                  /\ StrContains("not found", ErrorText(variant, tool_results[i]))
            /\ chat_return.kind # "raised"

C5_Witness ==
    /\ variant = "openai"
    /\ Len(tool_calls) = 2
    /\ UnknownCall(1)
    /\ tool_calls[1].arguments = BadPayload
    /\ ~UnknownCall(2)
    /\ RoundSucceeded

\* C6: when a registered callable raises, its call gets an error result that
\* contains the exception text, the remaining calls are still executed and
\* the round ends with a returned value.
C6_ToolExceptionIsolated ==
    /\ \A j \in RaisedEvents :
          /\ invocations[j].i <= Len(tool_results)
          /\ IsErrorResult(variant, tool_results[invocations[j].i])
          /\ StrContains(invocations[j].exc,
                         ErrorText(variant, tool_results[invocations[j].i]))
    /\ (RaisedEvents # {} /\ pc = "idle") =>
          /\ idx = Len(tool_calls)
          /\ Len(tool_results) = Len(tool_calls)
          /\ chat_return.kind \in {"text", "response", "error"}
          /\ chat_return.kind = "error" => last_exc.at = 2

C6_Witness ==
    /\ Len(tool_calls) = 2
    /\ Len(invocations) = 4
    /\ invocations[2].outcome = "raised"
    /\ invocations[4].outcome = "returned"
    /\ RoundSucceeded

\* the message category each backend failure is reported under
FailureCategory(v, exc) ==
    IF v = "ollama" THEN "ollama"
    ELSE CASE exc = "AuthenticationError" -> "auth"
           [] exc = "BadRequestError" -> "bad_request"
           [] exc = "RateLimitError" -> "rate_limit"
           [] exc = "APIError" -> "api"
           [] OTHER -> "unexpected"

\* C7: whichever exception the first or the second backend call raises,
\* chat() returns a text for that exception's category; nothing is raised to
\* the caller.
C7_BackendFailureReturned ==
    /\ chat_return.kind # "raised"
    /\ (pc = "idle" /\ last_exc.at # 0) =>
          /\ chat_return.kind = "error"
          /\ chat_return.category = FailureCategory(variant, last_exc.kind)
          /\ Len(chat_return.text) > 0

C7_Witness ==
    /\ pc = "idle"
    /\ variant = "claude"
    /\ last_exc = [at |-> 2, kind |-> "AuthenticationError"]
    /\ chat_return.kind = "error"
    /\ chat_return.category = "auth"

\* the callables of this round that returned a mapping
MappingReturns ==
    {j \in 1..Len(invocations) :
        /\ invocations[j].ev = "end"
        /\ invocations[j].outcome = "returned"
        /\ invocations[j].value.type = "dict"}

Growth == Len(conversation_history) - hist_before

\* C9 as stated: a successful round without tool calls adds 2 turns, one
\* with tool calls adds 4, the results being folded into one turn.
C9_Original ==
    RoundSucceeded => Growth = IF Len(tool_calls) = 0 THEN 2 ELSE 4

\* C9 as the code has it: a successful round without tool calls adds 2 turns
\* (user, assistant).  With k >= 1 tool calls ClaudeAgent and OpenAIAgent add
\* k + 3 turns: user, the assistant's tool-call turn, one tool-result turn
\* for each call in call order, the final assistant turn.  OllamaAgent adds
\* user and assistant and one tool turn for each callable that returned a
\* mapping, and no final assistant turn.
C9_HistoryGrowth ==
    RoundSucceeded =>
        LET k == Len(tool_calls)
            h == conversation_history
            b == hist_before
        IN  IF k = 0
            THEN /\ Growth = 2
                 /\ h[b + 1].role = "user"
                 /\ h[b + 2].role = "assistant"
            ELSE IF variant = "ollama"
            THEN /\ Growth = 2 + Cardinality(MappingReturns)
                 /\ h[b + 1].role = "user"
                 /\ h[b + 2].role = "assistant"
                 /\ \A j \in (b + 3)..Len(h) : h[j].role = "tool"
            ELSE /\ Growth = k + 3
                 /\ h[b + 1].role = "user"
                 /\ h[b + 2].role = "assistant"
                 /\ Len(h[b + 2].tool_calls) = k
                 /\ \A i \in 1..k : h[b + 2 + i].tool_results = <<tool_results[i]>>
                 /\ h[b + k + 3].role = "assistant"
                 /\ h[b + k + 3].tool_calls = <<>>

C9_Witness ==
    /\ RoundSucceeded
    /\ variant = "claude"
    /\ Len(tool_calls) = 2
    /\ Growth = 5

\* C10: the callables of a round run one at a time in the order of the
\* backend's tool calls; there is one result per handled call, in call
\* order, and it carries the id of that call, an id of this round.
C10_SequentialInOrder ==
    /\ \A j \in 1..Len(invocations) :
          /\ invocations[j].ev = IF j % 2 = 1 THEN "start" ELSE "end"
          /\ j % 2 = 0 => invocations[j].i = invocations[j - 1].i
          /\ (j % 2 = 1 /\ j > 2) => invocations[j].i > invocations[j - 2].i
          /\ invocations[j].function =
                available_tools[tool_calls[invocations[j].i].name].function
    /\ pc = "in_tool" <=> Len(invocations) % 2 = 1
    /\ Len(tool_results) = idx
    /\ idx <= Len(tool_calls)
    /\ pc = "call2" => idx = Len(tool_calls)
    /\ \A i \in 1..Len(tool_results) :
          IF variant = "ollama"
          THEN tool_results[i].name = tool_calls[i].name
          ELSE /\ ResultId(variant, tool_results[i]) = tool_calls[i].id
               /\ tool_calls[i].id = <<rounds, i>>

C10_Witness ==
    /\ variant = "openai"
    /\ pc = "call2"
    /\ Len(tool_calls) = 2
    /\ Len(invocations) = 4
    /\ invocations[1].i = 1
    /\ invocations[3].i = 2
    /\ ResultId(variant, tool_results[2]) = <<rounds, 2>>

----------------------------------------------------------------------------
(* The backend calls of a round *)

BackendStarts(n) ==
    {j \in 1..Len(backend_calls) :
        backend_calls[j].ev = "start" /\ backend_calls[j].call = n}

RoundOver == pc = "idle" /\ rounds > 0

\* the turns a tool-bearing round of ClaudeAgent or OpenAIAgent has put in the
\* history when every call of the round has been handled
HistoryWithResults ==
    SubSeq(conversation_history, 1, hist_before + 2) \o
        ResultTurns(variant, tool_results)

FollowUpReturned ==
    /\ RoundOver
    /\ Len(backend_calls) = 4
    /\ last_exc.at = 0

FollowUpContent == conversation_history[Len(conversation_history)].content

\* the tool callables started in this round
ToolStarts == {j \in 1..Len(invocations) : invocations[j].ev = "start"}

\* C12 as stated: a follow-up response without text makes the round return a
\* fixed non-empty fallback message.
C12_Original ==
    (FollowUpReturned /\ NoText(FollowUpContent)) =>
        /\ chat_return.kind = "text"
        /\ Len(chat_return.text) > 0

\* C12 as the code has it: a follow-up response without text makes the round
\* return the empty string, the same for every such round; the round makes
\* no third backend call and runs no tool after the follow-up call was
\* issued.
C12_EmptyFollowUp ==
    (FollowUpReturned /\ NoText(FollowUpContent)) =>
        /\ chat_return = ReturnText("")
        /\ BackendStarts(1) = {1}
        /\ BackendStarts(2) = {3}
        /\ backend_calls[3].finished = Len(tool_calls)
        /\ Cardinality(ToolStarts) <= Len(tool_calls)
        /\ Len(tool_results) = Len(tool_calls)

C12_Witness ==
    /\ FollowUpReturned
    /\ variant = "openai"
    /\ FollowUpContent = PyNone
    /\ chat_return = ReturnText("")
    /\ Cardinality(ToolStarts) = 1
    /\ Len(tool_calls) = 2

----------------------------------------------------------------------------
(* The Interactive Driver: the heuristics of src/agent/interact.py *)

completion_indicators ==
    <<"task complete", "task is complete", "completed all the required tasks",
      "successfully implemented all", "all requirements have been met",
      "implementation is now complete", "successfully created all the necessary",
      "the project is now ready", "everything is now implemented",
      "all features are now implemented">>

\* the length of the window searched for "next" after a matched indicator
NextWindow == 50

\* is_task_complete matching the indicators against the reply as written
is_task_complete_case_sensitive(reply) ==
    \E k \in 1..Len(completion_indicators) :
        /\ StrContains(completion_indicators[k], reply)
        /\ LET at == StrIndex(reply, completion_indicators[k]) - 1
           IN  ~StrContains("next", Slice(reply, at, at + NextWindow))

\* is_task_complete(reply)
is_task_complete(reply) ==
    \E reply_lower \in {lower(reply)} :
    \/ \E k \in 1..Len(completion_indicators) :
          /\ StrContains(completion_indicators[k], reply_lower)
          /\ LET at == StrIndex(reply_lower, completion_indicators[k]) - 1
             IN  ~StrContains("next", Slice(reply_lower, at, at + NextWindow))
    \/ /\ StrContains("summary of what we've accomplished", reply_lower)
       /\ ~StrContains("next steps", reply_lower)
    \/ /\ \/ StrContains("in conclusion", reply_lower)
          \/ StrContains("to summarize", reply_lower)
       /\ \/ StrContains("all requirements", reply_lower)
          \/ StrContains("all functionality", reply_lower)

\* the tool names extract_tool_calls looks for, with the argument each takes
ExtractedTools ==
    <<[tool |-> "create_file", key |-> "file_path"],
      [tool |-> "edit_file", key |-> "target_file"],
      [tool |-> "run_terminal_cmd", key |-> "command"]>>

\* the calls extract_tool_calls finds for one tool name: one for each line
\* but the last that holds the name; the argument is the next line if the
\* line also holds the argument's name
RECURSIVE ExtractFrom(_, _, _)
ExtractFrom(lines, t, i) ==
    IF i >= Len(lines) THEN <<>>
    ELSE (IF StrContains(t.tool, lines[i])
          THEN <<[tool |-> t.tool, key |-> t.key,
                  arg |-> IF StrContains(t.key, lines[i])
                          THEN StripQuoted(lines[i + 1]) ELSE "unknown"]>>
          ELSE <<>>) \o ExtractFrom(lines, t, i + 1)

\* extract_tool_calls(reply)
extract_tool_calls(reply) ==
    LET lines == SplitLines(reply)
        found(k) == IF StrContains(ExtractedTools[k].tool, reply)
                    THEN ExtractFrom(lines, ExtractedTools[k], 1) ELSE <<>>
    IN  found(1) \o found(2) \o found(3)

input_request_phrases ==
    <<"could you provide", "can you provide", "please let me know",
      "what would you like", "how would you like", "do you have a preference">>

\* Python's False, as check_for_user_input_request returns it
PyFalse == "<False>"

\* check_for_user_input_request when the analysis call raised: a question
\* mark or one of the phrases in the reply
input_request_fallback(reply) ==
    IF \/ StrContains("?", reply)
       \/ AnyIn(input_request_phrases, lower(reply))
    THEN "Please provide the requested information:"
    ELSE PyFalse

\* check_for_user_input_request on the analysis the agent returned:
\* analysis.split("INPUT_NEEDED:", 1)[1].strip()
input_request_of(analysis) ==
    IF StrContains("INPUT_NEEDED:", analysis)
    THEN LET at == StrIndex(analysis, "INPUT_NEEDED:") + Len("INPUT_NEEDED:")
         IN  StripChars(SubSeq(analysis, at, Len(analysis)), " \t\n\r")
    ELSE PyFalse

\* Python's truth value of what check_for_user_input_request returned
Truthy(value) == value # PyFalse /\ value # ""

----------------------------------------------------------------------------
(* The Interactive Driver: run_agent_interactive *)

\* program constants of the tool-call budget and of the snapshot trimming
InitialToolCallLimit == 5
ToolCallLimitStep == 5
ToolCallsKept == 10
CommandsKept == 5

MaxIterations == 2
MaxRetries == 1

InitialQueries == {"fix the parser"}

\* the planning preamble put before the task in iteration 1
PlanningQuery(initial_query) ==
    "I'll help you complete this task step by step. I'll break it down and use tools like reading/creating/editing files and running commands as needed.\n\nTASK: "
    \o initial_query
    \o "\n\nFirst, I'll create a plan for how to approach this task, then implement it step by step.\n"

\* json.dumps(temp_user_info, indent=2) of the auxiliary calls
FormattingInfo ==
    "{\n  \"temporary_context\": true,\n  \"is_formatting_request\": true\n}"
SystemRequestInfo ==
    "{\n  \"temporary_context\": true,\n  \"is_system_request\": true\n}"

\* BaseAgent.format_user_message(message, user_info) with a non-empty user_info
format_user_message_info(message, info) ==
    "<user_info>\n" \o info \o "\n</user_info>\n\n<user_query>\n" \o message
    \o "\n</user_query>"

\* a chat that starts the history over with each exchange
AgentChat_last_exchange(history, message, info, reply) ==
    <<UserTurn(format_user_message_info(message, info)), AssistantTurn(reply)>>

\* what agent.chat(message, user_info) leaves in the history when the backend
\* answered with a text: the user turn and the assistant turn
AgentChat(history, message, info, reply) ==
    history \o <<UserTurn(format_user_message_info(message, info)),
                 AssistantTurn(reply)>>

\* the formatting request of print_agent_information; the style guide that
\* ends the prompt is the same for every call and is cut here
format_prompt(information_type, content, details) ==
    "Format the following \"" \o information_type
    \o "\" information for console display:\n\nCONTENT: " \o content \o "\n\n"
    \o (IF details # "" THEN "DETAILS: " \o details ELSE "")
    \o "\n\nUse ANSI color codes to style the output."

\* what the backend answers to a formatting request
FormattedOutput == "\\033[36mok\\033[0m"

\* print_agent_information(agent, information_type, content, details): one
\* agent.chat call on the driver's agent
print_agent_information(history, information_type, content, details) ==
    AgentChat(history, format_prompt(information_type, content, details),
              FormattingInfo, FormattedOutput)

\* several print_agent_information calls in a row; items are
\* <<information_type, content, details>>
RECURSIVE Printed(_, _)
Printed(history, items) ==
    IF items = <<>> THEN history
    ELSE Printed(print_agent_information(history, items[1][1], items[1][2],
                                         items[1][3]),
                 Tail(items))

\* the agent's variables run_agent_interactive does not touch in this model
agent_rest == <<variant, available_tools, reg_log, pc, tool_calls, tool_results,
                idx, invocations, chat_return, last_exc, hist_before, rounds,
                cur_message, resp_text, backend_calls>>

\* query[:100] + "..." if len(query) > 100 else query
QueryPreview(q) == IF Len(q) > 100 THEN Slice(q, 0, 100) \o "..." ELSE q

\* the test of the while loop with one iteration too many
LoopContinues_one_more(i, max) == i <= max + 1

\* while iteration <= max_iterations
LoopContinues(i, max) == i <= max

\* the statements after the loop: the closing status line and the return
Finish(history, i, how) ==
    /\ conversation_history' =
          print_agent_information(history, "status",
              "Conversation ended after " \o ToString(i - 1) \o " iterations.", "")
    /\ d_pc' = "done"
    /\ d_outcome' = how
    /\ d_return' = "Conversation complete."

\* run_agent_interactive up to the loop: the agent is created, the task is
\* announced, the counters are set and the planning preamble is prepended
DriverStart ==
    /\ d_pc = "start"
    /\ conversation_history' =
          Printed(conversation_history,
                  <<<<"status", "Initializing conversation with initial task", "">>,
                    <<"status", "Task description", query>>,
                    <<"thinking", "Breaking down the task and creating a plan...", "">>>>)
    /\ iteration' = 1
    /\ query' = PlanningQuery(query)
    /\ max_tool_calls_per_iteration' = InitialToolCallLimit
    /\ current_iteration_tool_calls' = 0
    /\ d_pc' = "loop"
    /\ UNCHANGED <<max_iterations, auto_continue, response, user_prompt,
                   user_input, cur_exc, recent_errors, d_outcome, d_return,
                   main_rounds, input_log, aux_log, ui_tool_calls,
                   ui_command_history, created_or_modified_files, retries>>
    /\ UNCHANGED pending_calls
    /\ UNCHANGED agent_rest
    /\ UNCHANGED perm_vars
    /\ UNCHANGED tool_vars

\* the loop test; inside the loop the iteration is announced and the main
\* round is started with the current query
StartIteration ==
    /\ d_pc = "loop"
    /\ IF LoopContinues(iteration, max_iterations)
       THEN /\ conversation_history' =
                  Printed(conversation_history,
                      <<<<"status", "Running iteration " \o ToString(iteration)
                                    \o "/" \o ToString(max_iterations), "">>,
                        <<"status", "Processing query", QueryPreview(query)>>,
                        <<"thinking", "Processing your request...", "">>>>)
            /\ main_rounds' = Append(main_rounds,
                                     [iteration |-> iteration, query |-> query])
            /\ d_pc' = "main"
            /\ UNCHANGED <<d_outcome, d_return>>
       ELSE /\ Finish(conversation_history, iteration, "exhausted")
            /\ UNCHANGED main_rounds
    /\ UNCHANGED <<iteration, max_iterations, auto_continue, query, response,
                   user_prompt, user_input, cur_exc, recent_errors, input_log,
                   aux_log, current_iteration_tool_calls,
                   max_tool_calls_per_iteration, ui_tool_calls,
                   ui_command_history, created_or_modified_files, retries>>
    /\ UNCHANGED pending_calls
    /\ UNCHANGED agent_rest
    /\ UNCHANGED perm_vars
    /\ UNCHANGED tool_vars

\* the replies of a main round the model draws from: a completion statement,
\* a completion phrase followed by "next", a question, and a reply that
\* names six terminal commands
Responses ==
    {"Task is complete. All requirements have been met.",
     "Task complete. Next, I will add tests.",
     "Which file should I edit?",
     "run_terminal_cmd command\nls\nrun_terminal_cmd command\npwd\nrun_terminal_cmd command\nls -la\nrun_terminal_cmd command\nenv\nrun_terminal_cmd command\ndate\nrun_terminal_cmd command\nid\ndone"}

\* json.dumps(user_info) of the main round, cut to the two lists the driver
\* appends to
SnapshotInfo ==
    "{\"tool_calls\": " \o ToString(ui_tool_calls) \o ", \"command_history\": "
    \o ToString(ui_command_history) \o "}"

\* f"{duration:.2f}" of a main round
DurationText == "0.50"

\* run_single_query has returned the agent's reply
MainRoundReturns ==
    /\ d_pc = "main"
    /\ \E reply \in Responses :
        /\ response' = reply
        /\ pending_calls' = extract_tool_calls(reply)
        /\ conversation_history' =
              Printed(AgentChat(conversation_history, query, SnapshotInfo, reply),
                      <<<<"response", reply, "">>,
                        <<"status", "Response generated in " \o DurationText
                                    \o " seconds", "">>>>)
    /\ d_pc' = "track"
    /\ UNCHANGED <<iteration, max_iterations, auto_continue, query, user_prompt,
                   user_input, cur_exc, recent_errors, d_outcome, d_return,
                   main_rounds, input_log, aux_log, current_iteration_tool_calls,
                   max_tool_calls_per_iteration, ui_tool_calls,
                   ui_command_history, created_or_modified_files, retries>>
    /\ UNCHANGED agent_rest
    /\ UNCHANGED perm_vars
    /\ UNCHANGED tool_vars

\* an exception left the try block: the handler reports it, records its text
\* and shows the recovery menu
MainRoundRaises ==
    /\ d_pc = "main"
    /\ \E e \in ExcTexts :
        /\ cur_exc' = e
        /\ conversation_history' =
              print_agent_information(conversation_history, "error",
                  "Error in iteration " \o ToString(iteration), e)
        /\ recent_errors' = Append(recent_errors, e)
    /\ d_pc' = "recover"
    /\ UNCHANGED <<iteration, max_iterations, auto_continue, query, response,
                   user_prompt, user_input, d_outcome, d_return, main_rounds,
                   input_log, aux_log, current_iteration_tool_calls,
                   max_tool_calls_per_iteration, ui_tool_calls,
                   ui_command_history, created_or_modified_files, retries>>
    /\ UNCHANGED pending_calls
    /\ UNCHANGED agent_rest
    /\ UNCHANGED perm_vars
    /\ UNCHANGED tool_vars

\* "\n".join(f"{k}: {v}" ...) of a tracked call's args
ArgsText(c) == c.key \o ": " \o c.arg

\* a limit that a confirmation puts back to where it started
WidenedLimit_reset(limit) == InitialToolCallLimit + ToolCallLimitStep

\* max_tool_calls_per_iteration += 5
WidenedLimit(limit) == limit + ToolCallLimitStep

\* the answers the tool-call limit prompt can get
LimitAnswers == {"y", "n"}

\* one pass of the for loop over the extracted tool calls: the call is
\* announced and recorded in the snapshot; when the counter has reached the
\* limit the user is asked, "y" widens the limit and anything else leaves
\* the for loop
TrackToolCall ==
    /\ d_pc = "track"
    /\ pending_calls # <<>>
    /\ \E c \in {Head(pending_calls)}, cnt \in {current_iteration_tool_calls + 1} :
       \E isFile \in {c.tool \in {"create_file", "edit_file"} /\ c.arg # ""},
          isCmd \in {c.tool = "run_terminal_cmd" /\ c.arg # ""} :
       \E h \in {Printed(conversation_history,
                     <<<<"tool_call", c.tool, ArgsText(c)>>>>
                     \o (IF isFile
                         THEN <<<<"file_operation", "Modified " \o c.arg, "">>>>
                         ELSE <<>>)
                     \o (IF isCmd
                         THEN <<<<"command", "Executed command: " \o c.arg, "">>>>
                         ELSE <<>>))} :
          /\ ui_tool_calls' = Append(ui_tool_calls, c)
          /\ current_iteration_tool_calls' = cnt
          /\ created_or_modified_files' =
                IF isFile THEN created_or_modified_files \cup {c.arg}
                ELSE created_or_modified_files
          /\ ui_command_history' =
                IF isCmd THEN Append(ui_command_history, c.arg)
                ELSE ui_command_history
          /\ IF cnt >= max_tool_calls_per_iteration
             THEN \E choice \in LimitAnswers :
                    /\ input_log' = Append(input_log,
                                           [kind |-> "limit", text |-> choice])
                    /\ IF lower(choice) # "y"
                       THEN /\ conversation_history' =
                                 Printed(h,
                                   <<<<"status", "Reached maximum of "
                                        \o ToString(max_tool_calls_per_iteration)
                                        \o " tool calls in this iteration", "">>,
                                     <<"status", "User requested to stop after reaching tool call limit.", "">>>>)
                            /\ pending_calls' = <<>>
                            /\ UNCHANGED max_tool_calls_per_iteration
                       ELSE /\ max_tool_calls_per_iteration' =
                                 WidenedLimit(max_tool_calls_per_iteration)
                            /\ conversation_history' =
                                 Printed(h,
                                   <<<<"status", "Reached maximum of "
                                        \o ToString(max_tool_calls_per_iteration)
                                        \o " tool calls in this iteration", "">>,
                                     <<"status", "Continuing with tool calls. New limit is "
                                        \o ToString(WidenedLimit(
                                               max_tool_calls_per_iteration))
                                        \o ".", "">>>>)
                            /\ pending_calls' = Tail(pending_calls)
             ELSE /\ conversation_history' = h
                  /\ pending_calls' = Tail(pending_calls)
                  /\ UNCHANGED <<input_log, max_tool_calls_per_iteration>>
    /\ UNCHANGED <<d_pc, iteration, max_iterations, auto_continue, query, response,
                   user_prompt, user_input, cur_exc, recent_errors, d_outcome,
                   d_return, main_rounds, aux_log, retries>>
    /\ UNCHANGED agent_rest
    /\ UNCHANGED perm_vars
    /\ UNCHANGED tool_vars

\* a driver without the completion check after the tracking
CheckComplete_no_break ==
    /\ d_pc = "track"
    /\ pending_calls = <<>>
    /\ d_pc' = "analysis"
    /\ UNCHANGED <<conversation_history, d_outcome, d_return>>
    /\ UNCHANGED <<iteration, max_iterations, auto_continue, query, response,
                   pending_calls, user_prompt, user_input, cur_exc, recent_errors,
                   main_rounds, input_log, aux_log, current_iteration_tool_calls,
                   max_tool_calls_per_iteration, ui_tool_calls,
                   ui_command_history, created_or_modified_files, retries>>
    /\ UNCHANGED agent_rest
    /\ UNCHANGED perm_vars
    /\ UNCHANGED tool_vars

\* the for loop is over: the completion heuristic is applied; if it fires
\* the while loop is left, else the analysis call of
\* check_for_user_input_request is made
CheckComplete ==
    /\ d_pc = "track"
    /\ pending_calls = <<>>
    /\ IF is_task_complete(response)
       THEN Finish(print_agent_information(conversation_history, "status",
                       "Task has been completed successfully!", ""),
                   iteration, "success")
       ELSE /\ d_pc' = "analysis"
            /\ UNCHANGED <<conversation_history, d_outcome, d_return>>
    /\ UNCHANGED <<iteration, max_iterations, auto_continue, query, response,
                   pending_calls, user_prompt, user_input, cur_exc, recent_errors,
                   main_rounds, input_log, aux_log, current_iteration_tool_calls,
                   max_tool_calls_per_iteration, ui_tool_calls,
                   ui_command_history, created_or_modified_files, retries>>
    /\ UNCHANGED agent_rest
    /\ UNCHANGED perm_vars
    /\ UNCHANGED tool_vars

\* the request check_for_user_input_request sends; the rules that end the
\* prompt are the same for every call and are cut here
input_analysis_prompt(reply) ==
    "Analyze the following AI assistant response and determine if it is explicitly requesting user input or clarification:\n\nRESPONSE: "
    \o reply \o "\n\nRules for determining if input is needed: ..."

\* what the agent answers to it
AnalysisReplies == {"NO_INPUT_NEEDED", "INPUT_NEEDED: Which file?"}

\* the request get_continuation_prompt sends.  user_input is a parameter of
\* the function; the prompt is built from iteration and last_response only.
continuation_analysis_prompt(i, last_response, entered) ==
    "Analyze the following assistant response from iteration " \o ToString(i)
    \o " and help create a continuation prompt.\n\nRESPONSE: " \o last_response
    \o "\n\nAnalyze and summarize what happened in this interaction ..."

\* what the agent answers to it
ContinuationReplies == {"Tests are missing; add them next."}

\* the prompt get_continuation_prompt returns when its agent call raised
DefaultContinuation == "Continue with the next steps based on the previous results."

\* what the user types at the two free-text prompts
UserInputs == {"a.py", "end"}

\* a driver that prompts the user after every step, whatever auto_continue
AfterAnalysis_always_prompts(history, prompt) ==
    IF Truthy(prompt)
    THEN /\ conversation_history' =
               print_agent_information(history, "status",
                   "The agent is requesting additional information from you.", "")
         /\ d_pc' = "ask"
         /\ UNCHANGED user_input
    ELSE /\ conversation_history' =
               print_agent_information(history, "response",
                   "How can I help you further with this task? Please provide any guidance or specific requests.", "")
         /\ d_pc' = "menu"
         /\ UNCHANGED user_input

\* after check_for_user_input_request: the user is asked, or the driver goes
\* on by itself, or it shows the menu prompt
AfterAnalysis(history, prompt) ==
    IF Truthy(prompt)
    THEN /\ conversation_history' =
               print_agent_information(history, "status",
                   "The agent is requesting additional information from you.", "")
         /\ d_pc' = "ask"
         /\ UNCHANGED user_input
    ELSE IF auto_continue
    THEN /\ conversation_history' = history
         /\ user_input' = PyNone
         /\ d_pc' = "cont"
    ELSE /\ conversation_history' =
               print_agent_information(history, "response",
                   "How can I help you further with this task? Please provide any guidance or specific requests.", "")
         /\ d_pc' = "menu"
         /\ UNCHANGED user_input

\* the analysis call of check_for_user_input_request returned
AnalysisReturns ==
    /\ d_pc = "analysis"
    /\ \E analysis \in AnalysisReplies :
        /\ user_prompt' = input_request_of(analysis)
        /\ aux_log' = Append(aux_log, [kind |-> "analysis",
                                       prompt |-> input_analysis_prompt(response)])
        /\ AfterAnalysis(AgentChat(conversation_history,
                                   input_analysis_prompt(response),
                                   SystemRequestInfo, analysis),
                         input_request_of(analysis))
    /\ UNCHANGED <<iteration, max_iterations, auto_continue, query, response,
                   cur_exc, recent_errors, d_outcome, d_return, main_rounds,
                   input_log, current_iteration_tool_calls,
                   max_tool_calls_per_iteration, ui_tool_calls,
                   ui_command_history, created_or_modified_files, retries>>
    /\ UNCHANGED pending_calls
    /\ UNCHANGED agent_rest
    /\ UNCHANGED perm_vars
    /\ UNCHANGED tool_vars

\* the analysis call raised: the phrase heuristic decides
AnalysisRaises ==
    /\ d_pc = "analysis"
    /\ user_prompt' = input_request_fallback(response)
    /\ aux_log' = Append(aux_log, [kind |-> "analysis",
                                   prompt |-> input_analysis_prompt(response)])
    /\ AfterAnalysis(conversation_history, input_request_fallback(response))
    /\ UNCHANGED <<iteration, max_iterations, auto_continue, query, response,
                   cur_exc, recent_errors, d_outcome, d_return, main_rounds,
                   input_log, current_iteration_tool_calls,
                   max_tool_calls_per_iteration, ui_tool_calls,
                   ui_command_history, created_or_modified_files, retries>>
    /\ UNCHANGED pending_calls
    /\ UNCHANGED agent_rest
    /\ UNCHANGED perm_vars
    /\ UNCHANGED tool_vars

\* the user answers the input request (d_pc "ask") or the menu prompt
\* (d_pc "menu"); get_continuation_prompt is called with the entered text
UserEnters ==
    /\ d_pc \in {"ask", "menu"}
    /\ \E entered \in UserInputs :
        /\ user_input' = entered
        /\ input_log' = Append(input_log,
               [kind |-> IF d_pc = "ask" THEN "input_request" ELSE "menu",
                text |-> entered])
    /\ d_pc' = "cont"
    /\ UNCHANGED <<iteration, max_iterations, auto_continue, query, response,
                   user_prompt, cur_exc, recent_errors, d_outcome, d_return,
                   main_rounds, aux_log, current_iteration_tool_calls,
                   max_tool_calls_per_iteration, ui_tool_calls,
                   ui_command_history, created_or_modified_files, retries>>
    /\ UNCHANGED <<conversation_history>>
    /\ UNCHANGED pending_calls
    /\ UNCHANGED agent_rest
    /\ UNCHANGED perm_vars
    /\ UNCHANGED tool_vars

\* user_info["tool_calls"][-10:] and user_info["command_history"][-5:]
LastN(list, n) ==
    IF Len(list) > n THEN SubSeq(list, Len(list) - n + 1, Len(list)) ELSE list

\* a driver that keeps counting the tool calls across the user's inputs
AfterContinuation_keeps_counter(history, next_query) ==
    /\ query' = next_query
    /\ iteration' = iteration + 1
    /\ conversation_history' = history
    /\ d_pc' = "loop"
    /\ UNCHANGED <<current_iteration_tool_calls, ui_tool_calls,
                   ui_command_history, d_outcome, d_return>>

\* the statements after get_continuation_prompt.  With an entered text the
\* counter is reset, the iteration advances and the loop continues.  On the
\* auto-continue path the iteration advances, the two snapshot lists are cut
\* to their last entries and the completion heuristic is applied once more.
AfterContinuation(history, next_query) ==
    /\ query' = next_query
    /\ iteration' = iteration + 1
    /\ IF user_input # PyNone
       THEN /\ current_iteration_tool_calls' = 0
            /\ conversation_history' = history
            /\ d_pc' = "loop"
            /\ UNCHANGED <<ui_tool_calls, ui_command_history, d_outcome, d_return>>
       ELSE /\ conversation_history' =
                  print_agent_information(history, "status",
                      "Automatically continuing to next step...", "")
            /\ ui_tool_calls' = LastN(ui_tool_calls, ToolCallsKept)
            /\ ui_command_history' = LastN(ui_command_history, CommandsKept)
            /\ UNCHANGED current_iteration_tool_calls
            /\ IF is_task_complete(response)
               THEN /\ d_pc' = "done"
                    /\ d_outcome' = "success"
                    /\ d_return' = response
               ELSE /\ d_pc' = "loop"
                    /\ UNCHANGED <<d_outcome, d_return>>

\* the agent call of get_continuation_prompt returned: its reply is the
\* next query
ContinuationReturns ==
    /\ d_pc = "cont"
    /\ \E reply \in ContinuationReplies :
        LET prompt == continuation_analysis_prompt(iteration, response, user_input) IN
        /\ aux_log' = Append(aux_log, [kind |-> "continuation", prompt |-> prompt])
        /\ AfterContinuation(AgentChat(conversation_history, prompt,
                                       SystemRequestInfo, reply),
                             reply)
    /\ UNCHANGED <<max_iterations, auto_continue, response, user_prompt,
                   user_input, cur_exc, recent_errors, main_rounds, input_log,
                   max_tool_calls_per_iteration, created_or_modified_files,
                   retries>>
    /\ UNCHANGED pending_calls
    /\ UNCHANGED agent_rest
    /\ UNCHANGED perm_vars
    /\ UNCHANGED tool_vars

\* the agent call of get_continuation_prompt raised: the default prompt is
\* the next query
ContinuationRaises ==
    /\ d_pc = "cont"
    /\ aux_log' = Append(aux_log,
           [kind |-> "continuation",
            prompt |-> continuation_analysis_prompt(iteration, response, user_input)])
    /\ AfterContinuation(conversation_history, DefaultContinuation)
    /\ UNCHANGED <<max_iterations, auto_continue, response, user_prompt,
                   user_input, cur_exc, recent_errors, main_rounds, input_log,
                   max_tool_calls_per_iteration, created_or_modified_files,
                   retries>>
    /\ UNCHANGED pending_calls
    /\ UNCHANGED agent_rest
    /\ UNCHANGED perm_vars
    /\ UNCHANGED tool_vars

\* the choices of the recovery menu
RecoveryChoices == {"1", "2", "3"}

\* the query 'continue with error information' sets
ErrorQuery(e) ==
    "There was an error in the previous step: " \o e
    \o ". Please adjust your approach and continue."

\* the recovery menu with the first two choices swapped
recovery_swapped(choice) ==
    IF choice = "2" THEN "retry" ELSE IF choice = "1" THEN "continue" ELSE "abort"

\* if choice == "1" ... elif choice == "2" ... else
recovery(choice) ==
    IF choice = "1" THEN "retry" ELSE IF choice = "2" THEN "continue" ELSE "abort"

\* the user picks from the recovery menu
RecoveryChoice ==
    /\ d_pc = "recover"
    /\ \E choice \in RecoveryChoices :
        /\ recovery(choice) = "retry" => retries < MaxRetries
        /\ input_log' = Append(input_log, [kind |-> "recovery", text |-> choice])
        /\ retries' = IF recovery(choice) = "retry" THEN retries + 1 ELSE retries
        /\ IF recovery(choice) = "retry"
           THEN /\ d_pc' = "loop"
                /\ UNCHANGED <<query, iteration, conversation_history, d_outcome,
                               d_return>>
           ELSE IF recovery(choice) = "continue"
           THEN /\ query' = ErrorQuery(cur_exc)
                /\ iteration' = iteration + 1
                /\ d_pc' = "loop"
                /\ UNCHANGED <<conversation_history, d_outcome, d_return>>
           ELSE /\ Finish(conversation_history, iteration, "abort")
                /\ UNCHANGED <<query, iteration>>
    /\ UNCHANGED <<max_iterations, auto_continue, response, user_prompt,
                   user_input, cur_exc, recent_errors, main_rounds, aux_log,
                   current_iteration_tool_calls, max_tool_calls_per_iteration,
                   ui_tool_calls, ui_command_history, created_or_modified_files>>
    /\ UNCHANGED pending_calls
    /\ UNCHANGED agent_rest
    /\ UNCHANGED perm_vars
    /\ UNCHANGED tool_vars

\* run_agent_interactive is called on a fresh agent
InitDriver ==
    /\ InitAgentFresh
    /\ variant = "claude"
    /\ InitPermDefault
    /\ InitToolsIdle
    /\ d_pc = "start"
    /\ iteration = 1
    /\ max_iterations \in 0..MaxIterations
    /\ auto_continue \in BOOLEAN
    /\ query \in InitialQueries
    /\ response = ""
    /\ pending_calls = <<>>
    /\ user_prompt = ""
    /\ user_input = ""
    /\ cur_exc = ""
    /\ recent_errors = <<>>
    /\ d_outcome = ""
    /\ d_return = ""
    /\ main_rounds = <<>>
    /\ input_log = <<>>
    /\ aux_log = <<>>
    /\ current_iteration_tool_calls = 0
    /\ max_tool_calls_per_iteration = 0
    /\ ui_tool_calls = <<>>
    /\ ui_command_history = <<>>
    /\ created_or_modified_files = {}
    /\ retries = 0

NextDriver ==
    \/ DriverStart
    \/ StartIteration
    \/ MainRoundReturns
    \/ MainRoundRaises
    \/ TrackToolCall
    \/ CheckComplete
    \/ AnalysisReturns
    \/ AnalysisRaises
    \/ UserEnters
    \/ ContinuationReturns
    \/ ContinuationRaises
    \/ RecoveryChoice

SpecDriver == InitDriver /\ [][NextDriver]_vars

\* the driver's steps are taken as long as one is possible: the backend
\* answers or fails, the user answers every prompt
SpecDriverFair == SpecDriver /\ WF_vars(NextDriver)

----------------------------------------------------------------------------
(* Claims about run_agent_interactive *)

CompletionReply == "Task is complete. All requirements have been met."

\* the secondary agent calls of get_continuation_prompt made so far
ContinuationCalls ==
    {j \in 1..Len(aux_log) : aux_log[j].kind = "continuation"}

\* the first main round has come back and the tool calls of its reply have
\* been tracked
FirstRoundHandled ==
    /\ Len(main_rounds) >= 1
    /\ d_pc \notin {"start", "loop", "main", "track", "recover"}
    /\ recent_errors = <<>>

\* C13: when the reply of the first main round is "Task is complete. All
\* requirements have been met.", is_task_complete is true of it and
\* run_agent_interactive ends in iteration 1: the counter is still 1, no
\* input() call was made, get_continuation_prompt was not called and no
\* second main round was started.
C13_CompletionEndsAtIterationOne ==
    (FirstRoundHandled /\ Len(main_rounds) = 1 /\ response = CompletionReply) =>
        /\ is_task_complete(response)
        /\ d_pc = "done"
        /\ d_outcome = "success"
        /\ iteration = 1
        /\ input_log = <<>>
        /\ aux_log = <<>>
        /\ ContinuationCalls = {}
        /\ main_rounds = <<[iteration |-> 1,
                            query |-> main_rounds[1].query]>>

C13_Witness ==
    /\ d_pc = "done"
    /\ response = CompletionReply
    /\ Len(main_rounds) = 1
    /\ iteration = 1
    /\ max_iterations = 2
    /\ d_outcome = "success"

\* the last input() call, if it was the recovery menu
LastChoice ==
    IF input_log # <<>> /\ input_log[Len(input_log)].kind = "recovery"
    THEN input_log[Len(input_log)].text ELSE ""

\* the main rounds are started with the counter within 1..max_iterations,
\* the first one with 1, and the counter never goes down from one round to
\* the next; the loop is left in one of three ways
C14_Safety ==
    /\ iteration >= 1
    /\ \A j \in 1..Len(main_rounds) :
          /\ main_rounds[j].iteration \in 1..max_iterations
          /\ j = 1 => main_rounds[j].iteration = 1
          /\ j > 1 => main_rounds[j].iteration >= main_rounds[j - 1].iteration
          /\ main_rounds[j].iteration <= iteration
    /\ d_pc = "done" =>
          /\ d_outcome \in {"success", "exhausted", "abort"}
          /\ d_outcome = "success" => is_task_complete(response)
          /\ d_outcome = "exhausted" => iteration > max_iterations
          /\ d_outcome = "abort" =>
                /\ recent_errors # <<>>
                /\ recovery(LastChoice) = "abort"
    /\ d_pc # "done" => d_outcome = ""

\* C14: run_agent_interactive starts a main round only while the counter is
\* within 1..max_iterations; the counter starts at 1 and never decreases;
\* with the user choosing 'retry' at most MaxRetries times, every run
\* reaches a terminal state, and that state is success (the completion
\* heuristic fired), iteration exhaustion (the counter is beyond
\* max_iterations) or user abort.
C14_TerminatesInThreeWays ==
    /\ []C14_Safety
    /\ [][iteration' >= iteration]_vars
    /\ <>(d_pc = "done")

C14_Witness ==
    /\ d_pc = "done"
    /\ d_outcome = "exhausted"
    /\ retries = 1
    /\ Len(main_rounds) = 3
    /\ iteration = 3
    /\ max_iterations = 2


----------------------------------------------------------------------------
(* C15 *)

\* the callback was called once more, with the request just evaluated
CallbackInvoked ==
    /\ Len(callback_calls') = Len(callback_calls) + 1
    /\ SubSeq(callback_calls', 1, Len(callback_calls)) = callback_calls
    /\ callback_calls'[Len(callback_calls')].request = perm_request'

\* the statement of C15 for one request_permission call of a manager that
\* has a callback registered
C15_Step ==
    (callback = "set" /\ perm_count' = perm_count + 1) =>
        /\ prompt_calls' = prompt_calls
        /\ perm_status' = NEEDS_CONFIRMATION =>
              /\ CallbackInvoked
              /\ perm_result' =
                   (callback_calls'[Len(callback_calls')].returned = GRANTED)
        /\ perm_status' = GRANTED =>
              callback_calls' = callback_calls /\ perm_result' = TRUE
        /\ perm_status' = DENIED =>
              callback_calls' = callback_calls /\ perm_result' = FALSE

\* C15: with a callback registered, request_permission calls it exactly
\* when the evaluation is NEEDS_CONFIRMATION, with a PermissionRequest of
\* the same operation and details, and then returns True iff the callback
\* returned GRANTED, never showing the blocking prompt; on GRANTED and
\* DENIED it returns True and False and calls neither the callback nor the
\* prompt.
C15_CallbackDecides == [][C15_Step]_vars

C15_Witness ==
    /\ callback = "set"
    /\ perm_status = NEEDS_CONFIRMATION
    /\ perm_request.operation = "edit_file"
    /\ Len(callback_calls) = 1
    /\ callback_calls[1].request = perm_request
    /\ callback_calls[1].returned = NEEDS_CONFIRMATION
    /\ perm_result = FALSE
    /\ prompt_calls = 0


----------------------------------------------------------------------------
(* C16 *)

\* the result is an error result
IsErrorDict(result) ==
    \/ "error" \in DOMAIN result /\ result.error # PyNone
    \/ "status" \in DOMAIN result /\ result.status = "error"

\* C16: a default mutating tool (edit_file, delete_file, create_file,
\* run_terminal_command) writes, deletes or executes only after
\* request_permission for that operation returned True; when it returned
\* False the tool returns an error result, raises nothing and has changed
\* nothing.  The tools registered by OpenAIAgent.register_default_tools are
\* called without the agent, skip the request and act all the same.
C16_Original ==
    \A i \in 1..Len(tool_log) :
        /\ tool_log[i].acted => tool_log[i].asked = "granted"
        /\ tool_log[i].asked = "refused" =>
              /\ ~tool_log[i].acted
              /\ IsErrorDict(tool_log[i].result)
              /\ ~tool_log[i].raised


----------------------------------------------------------------------------
(* C17 *)

\* the calls of the round whose argument payload does not decode
Undecodable ==
    {i \in 1..Len(tool_calls) :
        ~json_loads(CallPayload(variant, tool_calls[i])).ok}

\* the results built for call i
ResultsOf(i) ==
    {k \in 1..Len(tool_results) :
        IF variant = "ollama"
        THEN k = i /\ tool_results[k].name = tool_calls[i].name
        ELSE ResultId(variant, tool_results[k]) = tool_calls[i].id}

\* C17: in the OpenAI and Ollama adapters a tool call whose argument payload
\* fails to decode is run with an empty argument mapping; nothing is
\* raised, the call gets exactly one result, the calls after it are handled
\* too and the round goes on to its end.
C17_UndecodableArguments ==
    variant \in {"openai", "ollama"} =>
        /\ \A i \in Undecodable :
              /\ \A j \in 1..Len(invocations) :
                    invocations[j].i = i => invocations[j].arguments = EmptyArgs
              /\ variant = "ollama" => tool_calls[i].arguments = EmptyArgs
              /\ i <= idx => Cardinality(ResultsOf(i)) = 1
              /\ i > idx => ResultsOf(i) = {}
        /\ chat_return.kind # "raised"
        /\ (Undecodable # {} /\ pc \in {"call2", "idle"}) =>
              /\ idx = Len(tool_calls)
              /\ Len(tool_results) = Len(tool_calls)
        /\ (Undecodable # {} /\ pc = "idle") => chat_return.kind # "pending"

C17_Witness ==
    /\ variant = "ollama"
    /\ pc = "idle"
    /\ Len(tool_calls) = 2
    /\ Undecodable = {1}
    /\ Len(invocations) = 4
    /\ invocations[1].arguments = EmptyArgs
    /\ invocations[3].arguments # EmptyArgs
    /\ chat_return.kind = "response"


----------------------------------------------------------------------------
(* C18 *)

\* C18: over main rounds, auxiliary rounds, failed rounds, the trimming of
\* the snapshot lists and the recovery choices, conversation_history only
\* grows at its end: its length never decreases and every entry stays at
\* its index with its role and content.
C18_HistoryAppendOnly ==
    [][/\ Len(conversation_history') >= Len(conversation_history)
       /\ SubSeq(conversation_history', 1, Len(conversation_history))
             = conversation_history]_vars

C18_Witness ==
    /\ d_pc = "done"
    /\ Len(ui_command_history) = CommandsKept
    /\ ui_command_history[1] = "pwd"
    /\ recent_errors # <<>>
    /\ Len(main_rounds) = 3
    /\ conversation_history[1].role = "user"
    /\ Len(conversation_history) > 2 * Len(main_rounds)


----------------------------------------------------------------------------
(* C19 *)

\* the text entered at the input() call this step made
Entered == input_log'[Len(input_log')].text

\* the statement of C19 for one step of the driver
C19_Step ==
    /\ (d_pc = "main" /\ d_pc' = "recover") =>
          /\ cur_exc' \in ExcTexts
          /\ recent_errors' = Append(recent_errors, cur_exc')
          /\ UNCHANGED <<iteration, query>>
    /\ d_pc = "recover" =>
          /\ Len(input_log') = Len(input_log) + 1
          /\ input_log'[Len(input_log')].kind = "recovery"
          /\ Entered = "1" =>
                /\ d_pc' = "loop"
                /\ UNCHANGED <<iteration, query>>
          /\ Entered = "2" =>
                /\ d_pc' = "loop"
                /\ StrContains(cur_exc, query')
                /\ iteration' = iteration + 1
          /\ Entered \notin {"1", "2"} =>
                /\ d_pc' = "done"
                /\ d_outcome' = "abort"
                /\ d_return' = "Conversation complete."
                /\ UNCHANGED <<iteration, query>>

\* C19: an exception that leaves the iteration body is recorded in
\* recent_errors and answered with the recovery menu: 'retry' goes back to
\* the loop with iteration and query as they were, 'continue' makes the
\* query a message that contains the error text and adds exactly one to
\* the iteration, every other choice ends the loop as user abort with a
\* returned value; the exception does not leave run_agent_interactive.
C19_RecoveryMenu == [][C19_Step]_vars

C19_Witness ==
    /\ d_pc = "main"
    /\ recent_errors = <<"boom">>
    /\ input_log # <<>>
    /\ input_log[Len(input_log)] = [kind |-> "recovery", text |-> "2"]
    /\ query = ErrorQuery("boom")
    /\ iteration = 2
    /\ Len(main_rounds) = 2
    /\ main_rounds[2].query = ErrorQuery("boom")


----------------------------------------------------------------------------
(* C20 *)

\* C20: when the user was asked for input, the entered text is folded into
\* the continuation prompt of the secondary agent call: with another text
\* entered, and all else equal, another prompt would be sent.
\* get_continuation_prompt of interact.py builds its prompt from the
\* iteration and the last response alone.
C20_Original ==
    (d_pc = "cont" /\ user_input \in UserInputs) =>
        \A other \in UserInputs \ {user_input} :
            continuation_analysis_prompt(iteration, response, other)
                # continuation_analysis_prompt(iteration, response, user_input)


----------------------------------------------------------------------------
(* C21 *)

\* the last input() call was the prompt of the user-prompted mode and the
\* user typed "end"
EndEntered ==
    /\ input_log # <<>>
    /\ input_log[Len(input_log)] = [kind |-> "menu", text |-> "end"]

\* C21 as stated: without auto-continue the user is shown a menu, and
\* choosing 'end' leads to the user-abort terminal state with no further
\* main round.  The driver has no such menu: what is typed, "end" too, is
\* handed to get_continuation_prompt and the next iteration runs.
C21_Original ==
    EndEntered =>
        /\ d_pc # "main"
        /\ d_pc = "done" => d_outcome = "abort"

\* one step of the driver after the two heuristics stayed silent
C21_Step ==
    /\ (d_pc = "analysis" /\ ~Truthy(user_prompt')) =>
          /\ input_log' = input_log
          /\ iteration' = iteration
          /\ IF auto_continue
             THEN d_pc' = "cont" /\ user_input' = PyNone
             ELSE d_pc' = "menu"
    /\ (d_pc = "cont" /\ user_input = PyNone) =>
          /\ input_log' = input_log
          /\ Len(aux_log') = Len(aux_log) + 1
          /\ aux_log'[Len(aux_log')].kind = "continuation"
          /\ iteration' = iteration + 1
          /\ d_pc' = "loop"
    /\ d_pc = "menu" =>
          /\ Len(input_log') = Len(input_log) + 1
          /\ input_log'[Len(input_log')].kind = "menu"
          /\ user_input' = input_log'[Len(input_log')].text
          /\ d_pc' = "cont"
          /\ iteration' = iteration
    /\ (d_pc = "cont" /\ EndEntered) =>
          /\ Len(aux_log') = Len(aux_log) + 1
          /\ iteration' = iteration + 1
          /\ current_iteration_tool_calls' = 0
          /\ d_pc' = "loop"

\* C21 (amended): when neither heuristic fires, with auto-continue the
\* driver obtains the continuation prompt without asking the user and
\* advances one iteration; without auto-continue it asks for one free text
\* and, whatever was typed ("end" included), obtains the continuation
\* prompt, resets the tool-call counter and advances one iteration: no
\* answer at this prompt ends the loop.
C21_ContinuationModes == [][C21_Step]_vars

C21_Witness ==
    /\ EndEntered
    /\ d_pc = "main"
    /\ iteration = 2
    /\ Len(main_rounds) = 2
    /\ ~auto_continue
    /\ current_iteration_tool_calls = 0


----------------------------------------------------------------------------
(* C22 *)

\* the output a tool-call result carries
ResultOutput(v, r) == IF v = "ollama" THEN r.output ELSE r.content

\* the text of a returned value: a str as it is, anything else as JSON
ValueText(value) == IF value.type = "str" THEN value.str ELSE json_dumps(value)

\* C22: a registered tool that returns normally gets a result whose output
\* is its return value, a text unchanged and any other value as its JSON
\* text, never an error result and never an empty output.  OllamaAgent
\* reads result.get("output", "") instead: a text value ends in an error
\* result and of a mapping only its "output" entry is kept.
C22_Original ==
    \A j \in 1..Len(invocations) :
        (/\ invocations[j].ev = "end"
         /\ invocations[j].outcome = "returned"
         /\ invocations[j].i <= Len(tool_results)) =>
            LET r == tool_results[invocations[j].i] IN
            /\ ~IsErrorResult(variant, r)
            /\ ResultOutput(variant, r) = ValueText(invocations[j].value)
            /\ ResultOutput(variant, r) # ""


----------------------------------------------------------------------------
(* C23 *)

\* the ordered procedure: delete protection, then the denylist, then
\* yolo_mode with the allowlist, else confirmation
OrderedDecision(opts, request) ==
    IF request.operation = "delete_file" /\ opts.delete_file_protection
    THEN NEEDS_CONFIRMATION
    ELSE IF /\ request.operation = "run_terminal_command"
            /\ \E k \in 1..Len(opts.command_denylist) :
                  StrContains(opts.command_denylist[k], DetailsCommand(request.details))
    THEN DENIED
    ELSE IF opts.yolo_mode
    THEN IF /\ request.operation = "run_terminal_command"
            /\ Len(opts.command_allowlist) > 0
            /\ \A k \in 1..Len(opts.command_allowlist) :
                  ~StrContains(opts.command_allowlist[k], DetailsCommand(request.details))
         THEN NEEDS_CONFIRMATION
         ELSE GRANTED
    ELSE NEEDS_CONFIRMATION

\* C23: for every operation, details mapping and PermissionOptions the
\* status _evaluate_permission returns is the decision of the ordered
\* procedure (delete protection first, denylist second, yolo_mode and
\* allowlist third, else NEEDS_CONFIRMATION).
C23_OrderedEvaluation ==
    perm_count > 0 => perm_status = OrderedDecision(options, perm_request)

C23_Witness ==
    /\ perm_count > 0
    /\ perm_request = PermissionRequest("delete_file", [command |-> "sudo ls /"])
    /\ options.delete_file_protection
    /\ options.yolo_mode
    /\ options.command_denylist = <<"sudo">>
    /\ perm_status = NEEDS_CONFIRMATION
    /\ perm_status = OrderedDecision(options, perm_request)


----------------------------------------------------------------------------
(* C24: the tool-call limit *)

\* the answers "y" given at the limit prompt so far
Confirmations ==
    Cardinality({i \in DOMAIN input_log :
                    /\ input_log[i].kind = "limit"
                    /\ lower(input_log[i].text) = "y"})

\* the user has just refused at the limit prompt
Refused ==
    /\ Len(input_log') = Len(input_log) + 1
    /\ input_log'[Len(input_log')].kind = "limit"
    /\ lower(input_log'[Len(input_log')].text) # "y"

\* once the driver has set its counters the limit is 5 + 5 x confirmations
C24_LimitValue ==
    d_pc # "start" =>
        max_tool_calls_per_iteration
            = InitialToolCallLimit + ToolCallLimitStep * Confirmations

\* a step changes the limit only by +5 and only with a confirmation; a
\* refusal empties the calls still to track, leaves the iteration, the
\* outcome and the driver where they are, and the step after the tracking
\* is the completion check, which ends the loop or goes on to the
\* input-request analysis
C24_Step ==
    /\ d_pc # "start" =>
         /\ max_tool_calls_per_iteration' >= max_tool_calls_per_iteration
         /\ max_tool_calls_per_iteration' # max_tool_calls_per_iteration =>
              /\ max_tool_calls_per_iteration'
                    = max_tool_calls_per_iteration + ToolCallLimitStep
              /\ Len(input_log') = Len(input_log) + 1
              /\ input_log'[Len(input_log')] = [kind |-> "limit", text |-> "y"]
    /\ Refused =>
         /\ d_pc = "track" /\ d_pc' = "track"
         /\ pending_calls' = <<>>
         /\ iteration' = iteration
         /\ d_outcome' = d_outcome /\ d_return' = d_return
         /\ current_iteration_tool_calls' >= max_tool_calls_per_iteration
    /\ (d_pc = "track" /\ pending_calls = <<>>) =>
         /\ d_pc' = (IF is_task_complete(response) THEN "done" ELSE "analysis")
         /\ iteration' = iteration

\* C24: the driver's tool-call limit starts at 5 and changes only by +5 when
\* the user confirms at the budget prompt, so it always equals 5 + 5 x
\* (confirmations so far); a refusal aborts neither the round nor the driver:
\* only the tracking of the reply's remaining tool calls stops and the
\* iteration goes on to the completion and input-request checks
C24_ToolCallLimit == [](C24_LimitValue) /\ [][C24_Step]_vars

\* the limit was confirmed in the first iteration and refused in the second,
\* where it still was 10, and the second iteration went on to the
\* input-request analysis
C24_Witness ==
    /\ input_log = <<[kind |-> "limit", text |-> "y"],
                     [kind |-> "limit", text |-> "n"]>>
    /\ iteration = 2
    /\ max_tool_calls_per_iteration = 10
    /\ current_iteration_tool_calls = 10
    /\ d_pc = "analysis"

----------------------------------------------------------------------------
(* C25: the input-request transition *)

\* the user has answered an input request of the agent and the continuation
\* prompt is being obtained
AnsweringInputRequest ==
    /\ d_pc = "cont"
    /\ user_input # PyNone
    /\ input_log # <<>>
    /\ input_log[Len(input_log)].kind = "input_request"

\* C25: each time the input-request heuristic fires, once the user's text has
\* been read and the continuation prompt obtained, the tool-call counter is 0
\* and the iteration counter is one higher than before, while the tool-call
\* limit, widened or not, is what it was
C25_Step ==
    AnsweringInputRequest =>
        /\ current_iteration_tool_calls' = 0
        /\ iteration' = iteration + 1
        /\ max_tool_calls_per_iteration' = max_tool_calls_per_iteration
        /\ d_pc' = "loop"

C25_InputRequestTransition == [][C25_Step]_vars

\* after six tracked tool calls and a widened limit the agent asked for
\* input, the user answered, and the next iteration starts with the counter
\* at 0 and the limit still 10
C25_Witness ==
    /\ d_pc = "loop"
    /\ iteration = 2
    /\ current_iteration_tool_calls = 0
    /\ max_tool_calls_per_iteration = 10
    /\ Len(ui_tool_calls) = 6
    /\ input_log # <<>>
    /\ input_log[Len(input_log)].kind = "input_request"

----------------------------------------------------------------------------
(* C26 *)

\* C26: at every invocation of the orchestration loop by the driver the
\* snapshot passed to it is bounded: the tool-call history has at most 10
\* entries and the command history at most 5, in every mode.
\* The two lists are cut only at the end of an iteration that was continued
\* automatically; the iterations that end with a text read from the user
\* leave the loop body before the cut.  (The recently modified files are cut
\* to 10 by update_workspace_state before every invocation.)
C26_Original ==
    d_pc = "main" =>
        /\ Len(ui_tool_calls) <= ToolCallsKept
        /\ Len(ui_command_history) <= CommandsKept

----------------------------------------------------------------------------
(* C27 *)

\* the user turn of the history carries the query of a main round
MainRoundTurn(turn) ==
    \E r \in DOMAIN main_rounds :
        EndsWith(turn.content,
                 "<user_query>\n" \o main_rounds[r].query \o "\n</user_query>")

\* C27: the driver's auxiliary agent calls (output formatting, input-request
\* analysis, continuation-prompt generation) do not pollute the main
\* conversation: the history is after each of them what it was before, so
\* the user turns it holds are those of the main rounds.
\* Each of the three functions calls agent.chat on the driver's agent, which
\* appends the request and the reply to conversation_history.
C27_Original ==
    \A i \in DOMAIN conversation_history :
        conversation_history[i].role = "user"
            => MainRoundTurn(conversation_history[i])

----------------------------------------------------------------------------
(* C28: tool calls and their results in the messages sent *)

\* every tool call an assistant turn of the messages records has a result
\* with its id in a later turn
Answered(v, messages) ==
    \A i \in DOMAIN messages :
        \A k \in DOMAIN messages[i].tool_calls :
            \E j \in (i + 1)..Len(messages) :
                \E m \in DOMAIN messages[j].tool_results :
                    ResultId(v, messages[j].tool_results[m])
                        = messages[i].tool_calls[k].id

\* C28: whenever the Claude or OpenAI orchestration loop issues a backend
\* call, every tool-call request recorded in an assistant turn of the history
\* it sends has a tool-result entry with the same id later in that history,
\* also in a round that follows a round whose second backend call failed
C28_CallsAnswered ==
    variant \in {"claude", "openai"} =>
        \A e \in DOMAIN backend_calls :
            backend_calls[e].ev = "start"
                => Answered(variant, backend_calls[e].messages)

\* the first backend call of a second round is out, after a first round
\* that ran two tools and whose follow-up call failed: the history is the
\* user turn, the assistant turn with two tool calls, two result turns and
\* the new user turn
C28_Witness ==
    /\ variant \in {"claude", "openai"}
    /\ rounds = 2
    /\ pc = "call1"
    /\ Len(conversation_history) = 5
    /\ Len(conversation_history[2].tool_calls) = 2
    /\ conversation_history[4].tool_results # <<>>
    /\ conversation_history[5].role = "user"
    /\ conversation_history[5].tool_results = <<>>
    /\ backend_calls[1].messages = conversation_history

----------------------------------------------------------------------------
(* C29: the value run_agent_interactive returns *)

\* C29: run_agent_interactive returns the fixed string "Conversation
\* complete." in every terminal state; the branch at the end of an
\* auto-continue iteration that returns the last reply when is_task_complete
\* holds is never taken, because once the tracking is over a reply that
\* satisfies the completion heuristic has ended the loop: past the completion
\* check of an iteration the reply does not satisfy the heuristic
C29_FixedReturn ==
    /\ d_pc = "done" => d_return = "Conversation complete."
    /\ d_pc \in {"analysis", "ask", "menu", "cont"} => ~is_task_complete(response)

\* the driver continued by itself after the first reply and the second reply
\* satisfied the completion heuristic: the loop ended and the fixed string
\* was returned, not the reply
C29_Witness ==
    /\ d_pc = "done"
    /\ auto_continue
    /\ Len(main_rounds) = 2
    /\ \E i \in DOMAIN aux_log : aux_log[i].kind = "continuation"
    /\ input_log = <<>>
    /\ is_task_complete(response)
    /\ d_outcome = "success"
    /\ d_return = "Conversation complete."
    /\ d_return # response

----------------------------------------------------------------------------
(* C30: the allowlist matches by containment *)

\* some entry of the list occurs somewhere in the command
OccursIn(lst, command) ==
    \E k \in 1..Len(lst) :
        \E i \in 1..Len(command), j \in 1..Len(command) :
            SubSeq(command, i, j) = lst[k]

\* C30: in yolo mode a run_terminal_command request whose command contains
\* an allowlist entry anywhere in the string and no denylist token is GRANTED
\* and answered with True without the callback or the prompt, also when the
\* allowlisted text is part of another word or one part of a chained command
C30_AllowlistContainment ==
    (/\ perm_count > 0
     /\ options.yolo_mode
     /\ perm_request.operation = "run_terminal_command"
     /\ "command" \in DOMAIN perm_request.details
     /\ OccursIn(options.command_allowlist, perm_request.details.command)
     /\ ~OccursIn(options.command_denylist, perm_request.details.command))
        => /\ perm_status = GRANTED
           /\ perm_result = TRUE
           /\ perm_channel = "none"

\* "false" is granted on the allowlist entry "ls", with a callback set that
\* was not asked
C30_Witness ==
    /\ perm_count > 0
    /\ options.yolo_mode
    /\ options.command_allowlist = <<"ls">>
    /\ options.command_denylist = <<"sudo">>
    /\ callback = "set"
    /\ perm_request = PermissionRequest("run_terminal_command",
                                        [command |-> "false"])
    /\ perm_status = GRANTED
    /\ perm_result = TRUE
    /\ callback_calls = <<>>
    /\ prompt_calls = 0

====
